---- MODULE Spec2Model ----
(***************************************************************************)
(* Segment lifecycle of the CRM extension: the Express routes of           *)
(* api/server/routes/segments.js, the store methods of                     *)
(* api/models/Segment.js and the column detection shared with the          *)
(* CRMQuery tool.  Every await of a handler is a step of its own, so       *)
(* requests interleave exactly at the store and engine calls.              *)
(***************************************************************************)
EXTENDS Integers, Sequences, FiniteSets, TLC

\* ------------------------------------------------------------------ bounds
MaxReq == 2      \* handlers that can be in flight at once
MaxSeg == 1      \* segment ids uuidv4 hands out
MaxTime == 2     \* instants the wall clock can show
MaxVer == 2      \* distinct generations the engine can answer with
MaxOps == 3      \* requests that change something, over a whole run

Reqs == 1..MaxReq
Ids == 1..MaxSeg
Versions == 1..MaxVer

\* ------------------------------------------------------------- characters
UpperChars == <<"A","B","C","D","E","F","G","H","I","J","K","L","M",
                "N","O","P","Q","R","S","T","U","V","W","X","Y","Z">>
LowerChars == <<"a","b","c","d","e","f","g","h","i","j","k","l","m",
                "n","o","p","q","r","s","t","u","v","w","x","y","z">>
DigitChars == <<"0","1","2","3","4","5","6","7","8","9">>

IsDigit(c) == \E i \in 1..10 : DigitChars[i] = c

\* String.prototype.toLowerCase / toUpperCase on one character
toLowerCase(c) ==
    IF \E i \in 1..26 : UpperChars[i] = c
    THEN LowerChars[CHOOSE i \in 1..26 : UpperChars[i] = c]
    ELSE c

toUpperCase(c) ==
    IF \E i \in 1..26 : LowerChars[i] = c
    THEN UpperChars[CHOOSE i \in 1..26 : LowerChars[i] = c]
    ELSE c

LowerStr(s) == [i \in 1..Len(s) |-> toLowerCase(s[i])]

\* String.prototype.includes
includes(s, sub) ==
    \E i \in 0..(Len(s) - Len(sub)) :
        \A j \in 1..Len(sub) : s[i + j] = sub[j]

\* String.prototype.startsWith
startsWith(s, prefix) ==
    /\ Len(s) >= Len(prefix)
    /\ SubSeq(s, 1, Len(prefix)) = prefix

\* \s of a regular expression, and what trim() strips
IsSpace(c) == c \in {" ", "\t", "\n"}

RECURSIVE TrimLeft(_)
TrimLeft(s) ==
    IF Len(s) > 0 /\ IsSpace(s[1]) THEN TrimLeft(Tail(s)) ELSE s

RECURSIVE TrimRight(_)
TrimRight(s) ==
    IF Len(s) > 0 /\ IsSpace(s[Len(s)])
    THEN TrimRight(SubSeq(s, 1, Len(s) - 1)) ELSE s

\* String.prototype.trim
trim(s) == TrimRight(TrimLeft(s))

\* decimal digits of a natural number, as String(n) prints them
RECURSIVE NatStr(_)
NatStr(n) ==
    IF n < 10 THEN <<DigitChars[n + 1]>>
    ELSE NatStr(n \div 10) \o <<DigitChars[(n % 10) + 1]>>

\* ------------------------------------------------------------- row values
\* A JavaScript value of a result row: t is its typeof-level tag, n the
\* number, s the characters of a string, e the elements of an array.
NumV(n) == [t |-> "number", n |-> n, s |-> <<>>, e |-> <<>>]
StrV(s) == [t |-> "string", n |-> 0, s |-> s, e |-> <<>>]
NullV == [t |-> "null", n |-> 0, s |-> <<>>, e |-> <<>>]
UndefV == [t |-> "undefined", n |-> 0, s |-> <<>>, e |-> <<>>]
\* a nested object, and an array of the given elements
ObjV == [t |-> "object", n |-> 0, s |-> <<>>, e |-> <<>>]
ArrV(elems) == [t |-> "array", n |-> 0, s |-> <<>>, e |-> elems]

RECURSIVE JSString(_)
RECURSIVE ArrayJoin(_)
\* Array.prototype.toString: the elements joined by commas, null and
\* undefined elements as the empty string
ArrayJoin(elems) ==
    IF Len(elems) = 0 THEN <<>>
    ELSE LET head == IF elems[1].t \in {"null", "undefined"} THEN <<>>
                     ELSE JSString(elems[1])
         IN  IF Len(elems) = 1 THEN head
             ELSE head \o <<",">> \o ArrayJoin(Tail(elems))

\* String(value)
JSString(v) ==
    CASE v.t = "number" -> NatStr(v.n)
      [] v.t = "string" -> v.s
      [] v.t = "array" -> ArrayJoin(v.e)
      [] v.t = "null" -> <<"n","u","l","l">>
      [] v.t = "undefined" -> <<"u","n","d","e","f","i","n","e","d">>
      [] v.t = "object" ->
            <<"[","o","b","j","e","c","t"," ","O","b","j","e","c","t","]">>
      [] OTHER -> v.s

\* /^\d{4}-\d{2}-\d{2}/.test(s)
DateRegexTest(s) ==
    /\ Len(s) >= 10
    /\ \A i \in {1, 2, 3, 4, 6, 7, 9, 10} : IsDigit(s[i])
    /\ s[5] = "-"
    /\ s[8] = "-"

MonetaryHint(key) ==
    \/ includes(LowerStr(key), <<"p","r","i","c","e">>)
    \/ includes(LowerStr(key), <<"t","o","t","a","l">>)
    \/ includes(LowerStr(key), <<"a","m","o","u","n","t">>)

\* an inference that gives up on a value that is null or undefined before it
\* looks at the key
ColumnType_NullIsString(key, value) ==
    IF value.t \in {"null", "undefined"} THEN "string"
    ELSE IF value.t = "number" THEN "number"
    ELSE IF value.t = "Date" \/ DateRegexTest(JSString(value)) THEN "date"
    ELSE IF MonetaryHint(key) THEN "currency"
    ELSE "string"

ColumnType(key, value) ==
    IF value.t = "number" THEN "number"
    ELSE IF value.t = "Date" \/ DateRegexTest(JSString(value)) THEN "date"
    ELSE IF MonetaryHint(key) THEN "currency"
    ELSE "string"

\* key.charAt(0).toUpperCase() + key.slice(1).replace(/_/g, ' ')
ColumnLabel(key) ==
    [i \in 1..Len(key) |->
        IF i = 1 THEN toUpperCase(key[1])
        ELSE IF key[i] = "_" THEN " " ELSE key[i]]

\* A row object carries its entries (key, value) in key order; UndefinedRow
\* is what customers[0] of an empty array evaluates to.
RowObj(entries) == [t |-> "object", entries |-> entries]
UndefinedRow == [t |-> "undefined", entries |-> <<>>]

\* an inference that walks the keys from the last to the first
detectColumns_Reversed(sampleRow) ==
    IF sampleRow.t = "undefined" THEN <<>>
    ELSE [i \in 1..Len(sampleRow.entries) |->
            LET e == sampleRow.entries[Len(sampleRow.entries) + 1 - i]
            IN  [key |-> e.key,
                 label |-> ColumnLabel(e.key),
                 type |-> ColumnType(e.key, e.value)]]

detectColumns(sampleRow) ==
    IF sampleRow.t = "undefined" THEN <<>>
    ELSE [i \in 1..Len(sampleRow.entries) |->
            [key |-> sampleRow.entries[i].key,
             label |-> ColumnLabel(sampleRow.entries[i].key),
             type |-> ColumnType(sampleRow.entries[i].key,
                                 sampleRow.entries[i].value)]]

\* ---------------------------------------------------- what the engine says
RowBudi == RowObj(
    << [key |-> <<"c","u","s","t","i","d">>, value |-> NumV(1)],
       [key |-> <<"c","u","s","t","n","a","m","e">>,
        value |-> StrV(<<"B","u","d","i">>)],
       [key |-> <<"t","o","t","a","l","s","p","e","n","d">>,
        value |-> NumV(200000)] >>)

RowAna == RowObj(
    << [key |-> <<"c","u","s","t","n","a","m","e">>,
        value |-> StrV(<<"A","n","a">>)],
       [key |-> <<"j","o","i","n","_","d","a","t","e">>,
        value |-> StrV(<<"2","0","2","4","-","0","1","-","0","5">>)] >>)

\* the customers arrays execute-view can answer with: none, one or two rows
CustomerLists == { <<>>, <<RowBudi>>, <<RowAna, RowBudi>> }

\* customers[0]
FirstRow(customers) ==
    IF Len(customers) = 0 THEN UndefinedRow ELSE customers[1]

\* the view the engine creates for a segment id
ViewOf(id) == <<"segment_view", id>>

\* descriptions a caller posts: empty, blank, and a real one
Descriptions == { <<>>, <<" ">>, <<"a","k","t","i","f">> }
Users == {"u1"}

\* the command word of the CRMQuery tool
SegmentCommand == <<"/","s","e","g","m","e","n","t">>

\* inputs the agent hands to the tool: a command with a description, and a
\* text that is no command
ToolInputs ==
    { <<" ">> \o SegmentCommand \o <<" "," ","a","k","t","i","f">>,
      <<"a","k","t","i","f">> }

\* this.userId of the tool: set, or missing
ToolUsers == {"u1", ""}

\* trimmedInput.replace(/^\/segment\s+/, '').trim()
ExtractDescription(trimmedInput) ==
    trim(IF /\ startsWith(trimmedInput, SegmentCommand)
            /\ Len(trimmedInput) > Len(SegmentCommand)
            /\ IsSpace(trimmedInput[Len(SegmentCommand) + 1])
         THEN TrimLeft(SubSeq(trimmedInput, Len(SegmentCommand) + 1,
                              Len(trimmedInput)))
         ELSE trimmedInput)

\* what the engine generates as name, description and SQL in generation v
GenName(v) == <<"N">> \o NatStr(v)
GenDesc(v) == <<"D">> \o NatStr(v)
GenSql(v) == <<"S">> \o NatStr(v)

\* ------------------------------------------------------ the segment store
\* A stored document is a record whose DOMAIN is the set of paths it has.
\* The paths of a segment document, as ISegment declares them for
\* Schema<ISegment>.
SchemaPaths ==
    {"segmentId", "name", "description", "originalPrompt", "sqlQuery",
     "viewName", "columns", "createdBy", "createdDate", "lastExecutedAt",
     "lastRowCount", "isDeleted", "deletedAt", "createdAt", "updatedAt"}

\* paths declared required: true
RequiredPaths == {"segmentId", "name", "description", "sqlQuery", "createdBy"}

\* strict mode: paths outside the schema are dropped from a write
StrictCast(obj) == [f \in (DOMAIN obj \cap SchemaPaths) |-> obj[f]]

\* $set of the paths of upd on document d
SetPaths(d, upd) ==
    [f \in (DOMAIN d \cup DOMAIN upd) |->
        IF f \in DOMAIN upd THEN upd[f] ELSE d[f]]

\* reads that do not filter on isDeleted
NotDeletedFilter_None(d) == TRUE

\* the filter {$or: [{isDeleted: false}, {isDeleted: {$exists: false}}]}
NotDeletedFilter(d) ==
    \/ ("isDeleted" \in DOMAIN d /\ d.isDeleted = FALSE)
    \/ "isDeleted" \notin DOMAIN d

\* a lookup by segmentId alone
getSegmentById_AnyState(S, segmentId) == {d \in S : d.segmentId = segmentId}

\* Segment.findOne({segmentId, $or: ...}).lean(): the matching documents,
\* none (null) or one (segmentId is a unique index)
getSegmentById(S, segmentId) ==
    {d \in S : d.segmentId = segmentId /\ NotDeletedFilter(d)}

\* Segment.find({$or: ...}): the documents a listing contains
getSegments(S) == {d \in S : NotDeletedFilter(d)}

\* a find without the sort
SortedListings_AnyOrder(S) ==
    {o \in [1..Cardinality(getSegments(S)) -> getSegments(S)] :
        \A i, j \in DOMAIN o : i # j => o[i] # o[j]}

\* .sort({createdAt: -1}): the orders the listing can come back in
SortedListings(S) ==
    {o \in [1..Cardinality(getSegments(S)) -> getSegments(S)] :
        /\ \A i, j \in DOMAIN o : i # j => o[i] # o[j]
        /\ \A i, j \in DOMAIN o : i < j => o[i].createdAt >= o[j].createdAt}

\* a raw lookup by id, deleted or not
RawFind(S, segmentId) == {d \in S : d.segmentId = segmentId}

\* Model.findOneAndUpdate({segmentId}, upd, {new: true}) with timestamps
findOneAndUpdate(S, segmentId, upd, t) ==
    {IF d.segmentId = segmentId
        THEN SetPaths(d, StrictCast(upd) @@ [updatedAt |-> t])
        ELSE d : d \in S}

\* a document whose lastRowCount is left at the schema default
NewDocument_DefaultStats(p, t) ==
    StrictCast([segmentId |-> p.segmentId,
                name |-> p.name,
                description |-> p.description,
                originalPrompt |-> IF Len(p.originalPrompt) = 0
                                   THEN p.description ELSE p.originalPrompt,
                sqlQuery |-> p.sqlQuery,
                viewName |-> p.viewName,
                columns |-> p.columns,
                createdBy |-> p.createdBy,
                createdDate |-> p.createdDate,
                isDeleted |-> p.isDeleted,
                lastExecutedAt |-> p.lastExecutedAt,
                lastRowCount |-> 0,
                createdAt |-> t,
                updatedAt |-> t])

\* the document Segment.create builds from createSegment's parameters
NewDocument(p, t) ==
    StrictCast([segmentId |-> p.segmentId,
                name |-> p.name,
                description |-> p.description,
                originalPrompt |-> IF Len(p.originalPrompt) = 0
                                   THEN p.description ELSE p.originalPrompt,
                sqlQuery |-> p.sqlQuery,
                viewName |-> p.viewName,
                columns |-> p.columns,
                createdBy |-> p.createdBy,
                createdDate |-> p.createdDate,
                isDeleted |-> p.isDeleted,
                lastExecutedAt |-> p.lastExecutedAt,
                lastRowCount |-> p.lastRowCount,
                createdAt |-> t,
                updatedAt |-> t])

\* a collection without the unique index on segmentId
CanInsert_NoUniqueIndex(S, doc) ==
    /\ RequiredPaths \subseteq DOMAIN doc
    /\ \A f \in RequiredPaths \ {"segmentId"} : Len(doc[f]) > 0

\* validation (a required string is present and not empty) and the unique
\* index on segmentId
CanInsert(S, doc) ==
    /\ RequiredPaths \subseteq DOMAIN doc
    /\ \A f \in RequiredPaths \ {"segmentId"} : Len(doc[f]) > 0
    /\ RawFind(S, doc.segmentId) = {}

\* The store after each writing method; ok = FALSE is the call in which the
\* store throws, having written nothing.

\* a create that throws after the document was written
createSegment_WrittenThenThrown(S, p, t, ok) ==
    IF CanInsert(S, NewDocument(p, t))
    THEN S \cup {NewDocument(p, t)} ELSE S

createSegment(S, p, t, ok) ==
    IF ok /\ CanInsert(S, NewDocument(p, t))
    THEN S \cup {NewDocument(p, t)} ELSE S

\* whether createSegment throws 'Failed to create segment'
createSegmentThrows(S, p, t, ok) == ~(ok /\ CanInsert(S, NewDocument(p, t)))

\* an update of the statistics that throws after it was written
updateSegmentExecution_WrittenThenThrown(S, segmentId, rowCount, t, ok) ==
    findOneAndUpdate(S, segmentId,
                     [lastExecutedAt |-> t, lastRowCount |-> rowCount], t)

updateSegmentExecution(S, segmentId, rowCount, t, ok) ==
    IF ok
    THEN findOneAndUpdate(S, segmentId,
                          [lastExecutedAt |-> t, lastRowCount |-> rowCount], t)
    ELSE S

\* an updateSegment that also lets the view name through
AllowedFields_WithViewName ==
    {"name", "description", "sqlQuery", "createdDate", "isDeleted",
     "deletedAt", "viewName"}

AllowedFields ==
    {"name", "description", "sqlQuery", "createdDate", "isDeleted", "deletedAt"}

updateSegment(S, segmentId, updates, t, ok) ==
    LET allowedUpdates ==
            [f \in (DOMAIN updates \cap AllowedFields) |-> updates[f]]
    IN  IF ~ok \/ DOMAIN allowedUpdates = {} THEN S
        ELSE findOneAndUpdate(S, segmentId, allowedUpdates, t)

\* ------------------------------------------------------------------ state
VARIABLES
    store,     \* the Segment collection: a set of documents
    views,     \* names of the views the engine holds
    executed,  \* names of the views execute-view has answered for
    recent,    \* by view, time and count of its latest answered execute-view
    nextId,    \* the next segment id uuidv4 returns
    now,       \* the latest time any handler has read off the clock
    req,       \* the handlers in flight, by slot
    last,      \* the response the step just taken has sent, if any
    created,   \* the segments POST / answered 201 with
    failed,    \* segment ids allocated by a POST / that answered an error
    deleted,   \* segment ids DELETE answered success for
    ops        \* requests taken so far, reads apart

vars == <<store, views, executed, recent, nextId, now, req, last, created,
          failed, deleted, ops>>

\* execute-view has answered for viewName with count rows, handled at time t
Completed(R, viewName, t, count) ==
    [v \in DOMAIN R \cup {viewName} |->
        IF v = viewName THEN [at |-> t, count |-> count] ELSE R[v]]

Nothing == <<>>

\* a free slot
IdleReq ==
    [kind |-> "none", pc |-> "idle", id |-> 0, desc |-> <<>>, actor |-> "",
     seg |-> Nothing, gen |-> Nothing, exec |-> Nothing, at |-> 0,
     calls |-> <<>>, input |-> <<>>]

NoResponse ==
    [kind |-> "none", id |-> 0, status |-> 0, err |-> "", body |-> Nothing,
     calls |-> <<>>, input |-> <<>>]

Init ==
    /\ store = {}
    /\ views = {}
    /\ executed = {}
    /\ recent = [v \in {} |-> Nothing]
    /\ nextId = 1
    /\ now = 1
    /\ req = [r \in Reqs |-> IdleReq]
    /\ last = NoResponse
    /\ created = {}
    /\ failed = {}
    /\ deleted = {}
    /\ ops = 0

\* a free slot takes the request; the lowest free one, slots being alike
CanStart(r) ==
    /\ ops < MaxOps
    /\ req[r].pc = "idle"
    /\ \A q \in Reqs : q < r => req[q].pc # "idle"

\* res.status(code).json(body) of the handler q
Response(q, code, err, body) ==
    [kind |-> q.kind, id |-> q.id, status |-> code, err |-> err,
     body |-> body, calls |-> [i \in 1..Len(q.calls) |-> q.calls[i].op],
     input |-> q.input]

\* the handler in slot r answers and is over
Respond(r, q, code, err, body) ==
    /\ req' = [req EXCEPT ![r] = IdleReq]
    /\ last' = Response(q, code, err, body)

\* the handler in slot r goes on as q, up to its next await
Continue(r, q) ==
    /\ req' = [req EXCEPT ![r] = q]
    /\ last' = NoResponse

\* the one document of a findOne result that is not null
TheDoc(found) == CHOOSE d \in found : TRUE

\* a lookup that takes the segment whether deleted or not
LookupSegment_Raw(S, segmentId) == {d \in S : d.segmentId = segmentId}

\* getSegmentById followed by the routes' `!segment || segment.isDeleted`:
\* the segment Execute and Refresh go on with, none when they answer 404
LookupSegment(S, segmentId) ==
    {d \in getSegmentById(S, segmentId) :
        ~("isDeleted" \in DOMAIN d /\ d.isDeleted)}

\* what a handler reads of the lean document it looked up, after the lookup
SegmentRead(d) ==
    [f \in (DOMAIN d \cap {"segmentId", "viewName", "originalPrompt",
                           "columns"}) |-> d[f]]

\* what identifies the segment in the answer of POST /
Identity(d) ==
    [f \in (DOMAIN d \cap {"segmentId", "viewName", "originalPrompt",
                           "columns", "createdBy"}) |-> d[f]]

\* new Date(): the clock never runs backwards, and is seen only when read
Dates == now..MaxTime

\* ------------------------------------------------- GET / and GET /:segmentId
List ==
    /\ \E ok \in BOOLEAN :
         LET q == [IdleReq EXCEPT !.kind = "list"]
         IN  IF ok
             THEN \E o \in SortedListings(store) :
                     last' = Response(q, 200, "", o)
             ELSE last' = Response(q, 500, "store", Nothing)
    /\ UNCHANGED <<store, views, executed, recent, nextId, now, req, created,
                   failed, deleted, ops>>

Get(id) ==
    /\ \E ok \in BOOLEAN :
         LET q == [IdleReq EXCEPT !.kind = "get", !.id = id]
             segment == getSegmentById(store, id)
         IN  last' = IF ~ok THEN Response(q, 500, "store", Nothing)
                     ELSE IF segment = {} THEN Response(q, 404, "", Nothing)
                     ELSE Response(q, 200, "", TheDoc(segment))
    /\ UNCHANGED <<store, views, executed, recent, nextId, now, req, created,
                   failed, deleted, ops>>

\* ------------------------------------------------------------------ POST /
\* validation, uuidv4, and the create call leaves for the engine
CreateStart(r, description, user) ==
    /\ CanStart(r)
    /\ ops' = ops + 1
    /\ LET q == [req[r] EXCEPT !.kind = "create", !.desc = description,
                               !.actor = user]
       IN  IF Len(description) = 0
           THEN /\ Respond(r, q, 400, "input", Nothing)
                /\ UNCHANGED <<nextId, now>>
           ELSE /\ nextId <= MaxSeg
                /\ nextId' = nextId + 1
                /\ \E currentDate \in Dates :
                     /\ now' = currentDate
                     /\ Continue(r, [q EXCEPT
                           !.pc = "gen", !.id = nextId,
                           !.calls = <<[op |-> "create", id |-> nextId,
                                        arg |-> description,
                                        currentDate |-> currentDate]>>])
    /\ UNCHANGED <<store, views, executed, recent, created, failed, deleted>>

\* /api/segments/create answers; on success execute-view is called
CreateGenerated(r) ==
    /\ req[r].kind = "create"
    /\ req[r].pc = "gen"
    /\ \E ok \in BOOLEAN, v \in Versions :
         IF ok
         THEN /\ views' = views \cup {ViewOf(req[r].id)}
              /\ Continue(r, [req[r] EXCEPT
                               !.pc = "exec",
                               !.gen = [name |-> GenName(v),
                                        description |-> GenDesc(v),
                                        sql |-> GenSql(v),
                                        viewName |-> ViewOf(req[r].id)],
                               !.calls = @ \o <<[op |-> "execute-view",
                                                 id |-> req[r].id,
                                                 arg |-> ViewOf(req[r].id)]>>])
              /\ UNCHANGED failed
         ELSE /\ Respond(r, req[r], 500, "engine", Nothing)
              /\ failed' = failed \cup {req[r].id}
              /\ UNCHANGED views
    /\ UNCHANGED <<store, executed, recent, nextId, now, created, deleted,
                   ops>>

\* execute-view answers; on success createSegment is called
CreateExecuted(r) ==
    /\ req[r].kind = "create"
    /\ req[r].pc = "exec"
    /\ \E ok \in BOOLEAN, customers \in CustomerLists, t \in Dates :
         IF ok /\ req[r].gen.viewName \in views
         THEN /\ executed' = executed \cup {req[r].gen.viewName}
              /\ recent' = Completed(recent, req[r].gen.viewName, t,
                                    Len(customers))
              /\ now' = t
              /\ Continue(r, [req[r] EXCEPT
                               !.pc = "insert", !.at = t,
                               !.exec = [customers |-> customers,
                                         count |-> Len(customers)]])
              /\ UNCHANGED failed
         ELSE /\ Respond(r, req[r], 500, "engine", Nothing)
              /\ UNCHANGED now
              /\ failed' = failed \cup {req[r].id}
              /\ UNCHANGED <<executed, recent>>
    /\ UNCHANGED <<store, views, nextId, created, deleted, ops>>

\* a create that stores a view name it builds itself from the segmentId
CreateParams_OwnViewName(q, t) ==
    [segmentId |-> q.id,
     name |-> q.gen.name,
     description |-> q.gen.description,
     originalPrompt |-> q.desc,
     sqlQuery |-> q.gen.sql,
     viewName |-> <<"segment", q.id>>,
     columns |-> detectColumns(FirstRow(q.exec.customers)),
     createdBy |-> q.actor,
     createdDate |-> t,
     isDeleted |-> FALSE,
     lastExecutedAt |-> t,
     lastRowCount |-> q.exec.count]

\* the parameters the route hands to createSegment; t is new Date() of the
\* moment of the call
CreateParams(q, t) ==
    [segmentId |-> q.id,
     name |-> q.gen.name,
     description |-> q.gen.description,
     originalPrompt |-> q.desc,
     sqlQuery |-> q.gen.sql,
     viewName |-> q.gen.viewName,
     columns |-> detectColumns(FirstRow(q.exec.customers)),
     createdBy |-> q.actor,
     createdDate |-> t,
     isDeleted |-> FALSE,
     lastExecutedAt |-> t,
     lastRowCount |-> q.exec.count]

\* createSegment settles: the document is inserted, or the store throws
CreateInsert(r) ==
    /\ req[r].kind = "create"
    /\ req[r].pc = "insert"
    /\ \E ok \in BOOLEAN :
         LET p == CreateParams(req[r], req[r].at)
         IN  /\ store' = createSegment(store, p, req[r].at, ok)
             /\ IF ~createSegmentThrows(store, p, req[r].at, ok)
                THEN /\ Respond(r, req[r], 201, "",
                                NewDocument(p, req[r].at))
                     /\ created' = created \cup
                                     {Identity(NewDocument(p, req[r].at))}
                     /\ UNCHANGED failed
                ELSE /\ Respond(r, req[r], 500, "store", Nothing)
                     /\ failed' = failed \cup {req[r].id}
                     /\ UNCHANGED created
    /\ UNCHANGED <<views, executed, recent, nextId, now, deleted, ops>>

\* --------------------------------------------------------- CRMQuery._call
\* The tool answers with a text; err names which one, status stays 0.  The
\* request and its answer keep the input the tool was given.

\* a tool that does not look at this.userId before it calls the engine
ToolStart_NoUserCheck(r, input, userId) ==
    /\ CanStart(r)
    /\ ops' = ops + 1
    /\ LET trimmedInput == trim(input)
           description == ExtractDescription(trimmedInput)
           q == [req[r] EXCEPT !.kind = "tool", !.desc = description,
                               !.actor = userId, !.input = input]
       IN  IF Len(input) = 0
           THEN /\ Respond(r, q, 0, "failed", Nothing)
                /\ UNCHANGED <<nextId, now>>
           ELSE IF ~startsWith(trimmedInput, SegmentCommand)
           THEN /\ Respond(r, q, 0, "invalid-command", Nothing)
                /\ UNCHANGED <<nextId, now>>
           ELSE IF Len(description) = 0
           THEN /\ Respond(r, q, 0, "no-description", Nothing)
                /\ UNCHANGED <<nextId, now>>
           ELSE /\ nextId <= MaxSeg
                /\ nextId' = nextId + 1
                /\ \E currentDate \in Dates :
                     /\ now' = currentDate
                     /\ Continue(r, [q EXCEPT
                           !.pc = "gen", !.id = nextId,
                           !.calls = <<[op |-> "create", id |-> nextId,
                                        arg |-> description,
                                        currentDate |-> currentDate]>>])
    /\ UNCHANGED <<store, views, executed, recent, created, failed, deleted>>

\* the command is parsed and the create call leaves for the engine
ToolStart(r, input, userId) ==
    /\ CanStart(r)
    /\ ops' = ops + 1
    /\ LET trimmedInput == trim(input)
           description == ExtractDescription(trimmedInput)
           q == [req[r] EXCEPT !.kind = "tool", !.desc = description,
                               !.actor = userId, !.input = input]
       IN  IF Len(input) = 0
           THEN /\ Respond(r, q, 0, "failed", Nothing)
                /\ UNCHANGED <<nextId, now>>
           ELSE IF ~startsWith(trimmedInput, SegmentCommand)
           THEN /\ Respond(r, q, 0, "invalid-command", Nothing)
                /\ UNCHANGED <<nextId, now>>
           ELSE IF Len(description) = 0
           THEN /\ Respond(r, q, 0, "no-description", Nothing)
                /\ UNCHANGED <<nextId, now>>
           ELSE IF userId = ""
           THEN /\ Respond(r, q, 0, "no-user", Nothing)
                /\ UNCHANGED <<nextId, now>>
           ELSE /\ nextId <= MaxSeg
                /\ nextId' = nextId + 1
                /\ \E currentDate \in Dates :
                     /\ now' = currentDate
                     /\ Continue(r, [q EXCEPT
                           !.pc = "gen", !.id = nextId,
                           !.calls = <<[op |-> "create", id |-> nextId,
                                        arg |-> description,
                                        currentDate |-> currentDate]>>])
    /\ UNCHANGED <<store, views, executed, recent, created, failed, deleted>>

\* /api/segments/create answers; on success execute-view is called
ToolGenerated(r) ==
    /\ req[r].kind = "tool"
    /\ req[r].pc = "gen"
    /\ \E ok \in BOOLEAN, v \in Versions :
         IF ok
         THEN /\ views' = views \cup {ViewOf(req[r].id)}
              /\ Continue(r, [req[r] EXCEPT
                               !.pc = "exec",
                               !.gen = [name |-> GenName(v),
                                        description |-> GenDesc(v),
                                        sql |-> GenSql(v),
                                        viewName |-> ViewOf(req[r].id)],
                               !.calls = @ \o <<[op |-> "execute-view",
                                                 id |-> req[r].id,
                                                 arg |-> ViewOf(req[r].id)]>>])
              /\ UNCHANGED failed
         ELSE /\ Respond(r, req[r], 0, "failed", Nothing)
              /\ failed' = failed \cup {req[r].id}
              /\ UNCHANGED views
    /\ UNCHANGED <<store, executed, recent, nextId, now, created, deleted,
                   ops>>

\* execute-view answers; on success createSegment is called
ToolExecuted(r) ==
    /\ req[r].kind = "tool"
    /\ req[r].pc = "exec"
    /\ \E ok \in BOOLEAN, customers \in CustomerLists, t \in Dates :
         IF ok /\ req[r].gen.viewName \in views
         THEN /\ executed' = executed \cup {req[r].gen.viewName}
              /\ recent' = Completed(recent, req[r].gen.viewName, t,
                                    Len(customers))
              /\ now' = t
              /\ Continue(r, [req[r] EXCEPT
                               !.pc = "insert", !.at = t,
                               !.exec = [customers |-> customers,
                                         count |-> Len(customers)]])
              /\ UNCHANGED failed
         ELSE /\ Respond(r, req[r], 0, "failed", Nothing)
              /\ failed' = failed \cup {req[r].id}
              /\ UNCHANGED <<executed, recent, now>>
    /\ UNCHANGED <<store, views, nextId, created, deleted, ops>>

\* a tool that leaves originalPrompt to createSegment's fallback
ToolInsert_NoPrompt(r) ==
    /\ req[r].kind = "tool"
    /\ req[r].pc = "insert"
    /\ \E ok \in BOOLEAN :
         LET p == [CreateParams(req[r], req[r].at) EXCEPT
                     !.originalPrompt = <<>>]
         IN  /\ store' = createSegment(store, p, req[r].at, ok)
             /\ IF ~createSegmentThrows(store, p, req[r].at, ok)
                THEN /\ Respond(r, req[r], 0, "created",
                                NewDocument(p, req[r].at))
                     /\ created' = created \cup
                                     {Identity(NewDocument(p, req[r].at))}
                     /\ UNCHANGED failed
                ELSE /\ Respond(r, req[r], 0, "failed", Nothing)
                     /\ failed' = failed \cup {req[r].id}
                     /\ UNCHANGED created
    /\ UNCHANGED <<views, executed, recent, nextId, now, deleted, ops>>

\* createSegment settles: the document is inserted, or the store throws
ToolInsert(r) ==
    /\ req[r].kind = "tool"
    /\ req[r].pc = "insert"
    /\ \E ok \in BOOLEAN :
         LET p == CreateParams(req[r], req[r].at)
         IN  /\ store' = createSegment(store, p, req[r].at, ok)
             /\ IF ~createSegmentThrows(store, p, req[r].at, ok)
                THEN /\ Respond(r, req[r], 0, "created",
                                NewDocument(p, req[r].at))
                     /\ created' = created \cup
                                     {Identity(NewDocument(p, req[r].at))}
                     /\ UNCHANGED failed
                ELSE /\ Respond(r, req[r], 0, "failed", Nothing)
                     /\ failed' = failed \cup {req[r].id}
                     /\ UNCHANGED created
    /\ UNCHANGED <<views, executed, recent, nextId, now, deleted, ops>>

\* an Execute that sends the stored sqlQuery for execution
ExecuteLookup_SendsSql(r, id) ==
    /\ CanStart(r)
    /\ ops' = ops + 1
    /\ \E ok \in BOOLEAN :
         LET q == [req[r] EXCEPT !.kind = "execute", !.id = id]
             segment == LookupSegment(store, id)
         IN  IF ~ok THEN Respond(r, q, 500, "store", Nothing)
             ELSE IF segment = {}
             THEN Respond(r, q, 404, "", Nothing)
             ELSE Continue(r, [q EXCEPT
                     !.pc = "exec", !.seg = SegmentRead(TheDoc(segment)),
                     !.calls = <<[op |-> "execute-view", id |-> id,
                                  arg |-> TheDoc(segment).sqlQuery]>>])
    /\ UNCHANGED <<store, views, executed, recent, nextId, now, created, failed,
                   deleted>>

\* ------------------------------------------------- GET /:segmentId/execute
\* getSegmentById settles; a visible segment sends execute-view on its way
ExecuteLookup(r, id) ==
    /\ CanStart(r)
    /\ ops' = ops + 1
    /\ \E ok \in BOOLEAN :
         LET q == [req[r] EXCEPT !.kind = "execute", !.id = id]
             segment == LookupSegment(store, id)
         IN  IF ~ok THEN Respond(r, q, 500, "store", Nothing)
             ELSE IF segment = {}
             THEN Respond(r, q, 404, "", Nothing)
             ELSE Continue(r, [q EXCEPT
                     !.pc = "exec", !.seg = SegmentRead(TheDoc(segment)),
                     !.calls = <<[op |-> "execute-view", id |-> id,
                                  arg |-> TheDoc(segment).viewName]>>])
    /\ UNCHANGED <<store, views, executed, recent, nextId, now, created, failed,
                   deleted>>

\* an Execute that posts execute-view again when the engine answers an error
ExecuteAnswered_Retry(r) ==
    /\ req[r].kind = "execute"
    /\ req[r].pc = "exec"
    /\ \E ok \in BOOLEAN, customers \in CustomerLists, t \in Dates :
         IF ok /\ req[r].seg.viewName \in views
         THEN /\ executed' = executed \cup {req[r].seg.viewName}
              /\ recent' = Completed(recent, req[r].seg.viewName, t,
                                    Len(customers))
              /\ now' = t
              /\ Continue(r, [req[r] EXCEPT
                               !.pc = "stats", !.at = t,
                               !.exec = [customers |-> customers,
                                         count |-> Len(customers)]])
         ELSE /\ Len(req[r].calls) < 2
              /\ Continue(r, [req[r] EXCEPT
                               !.calls = @ \o <<[op |-> "execute-view",
                                                 id |-> req[r].id,
                                                 arg |-> req[r].seg.viewName]>>])
              /\ UNCHANGED <<executed, recent, now>>
    /\ UNCHANGED <<store, views, nextId, created, failed, deleted, ops>>

\* an Execute without the catch: when the engine fails no response is sent
ExecuteAnswered_NoCatch(r) ==
    /\ req[r].kind = "execute"
    /\ req[r].pc = "exec"
    /\ \E ok \in BOOLEAN, customers \in CustomerLists, t \in Dates :
         IF ok /\ req[r].seg.viewName \in views
         THEN /\ executed' = executed \cup {req[r].seg.viewName}
              /\ recent' = Completed(recent, req[r].seg.viewName, t,
                                    Len(customers))
              /\ now' = t
              /\ Continue(r, [req[r] EXCEPT
                               !.pc = "stats", !.at = t,
                               !.exec = [customers |-> customers,
                                         count |-> Len(customers)]])
         ELSE /\ Continue(r, [req[r] EXCEPT !.pc = "lost"])
              /\ UNCHANGED now
              /\ UNCHANGED <<executed, recent>>
    /\ UNCHANGED <<store, views, nextId, created, failed, deleted, ops>>

\* execute-view answers; on success updateSegmentExecution is called
ExecuteAnswered(r) ==
    /\ req[r].kind = "execute"
    /\ req[r].pc = "exec"
    /\ \E ok \in BOOLEAN, customers \in CustomerLists, t \in Dates :
         IF ok /\ req[r].seg.viewName \in views
         THEN /\ executed' = executed \cup {req[r].seg.viewName}
              /\ recent' = Completed(recent, req[r].seg.viewName, t,
                                    Len(customers))
              /\ now' = t
              /\ Continue(r, [req[r] EXCEPT
                               !.pc = "stats", !.at = t,
                               !.exec = [customers |-> customers,
                                         count |-> Len(customers)]])
         ELSE /\ Respond(r, req[r], 500, "engine", Nothing)
              /\ UNCHANGED now
              /\ UNCHANGED <<executed, recent>>
    /\ UNCHANGED <<store, views, nextId, created, failed, deleted, ops>>

\* a stats write that stores the count and not the time
ExecuteStats_CountOnly(r) ==
    /\ req[r].kind = "execute"
    /\ req[r].pc = "stats"
    /\ \E ok \in BOOLEAN, t \in Dates :
         /\ store' = IF ok
                     THEN findOneAndUpdate(store, req[r].seg.segmentId,
                                           [lastRowCount |-> req[r].exec.count],
                                           req[r].at)
                     ELSE store
         /\ IF ok
            THEN
              /\ now' = t
              /\ Respond(r, req[r], 200, "",
                         [columns |-> req[r].seg.columns,
                          rows |-> req[r].exec.customers,
                          rowCount |-> req[r].exec.count,
                          executedAt |-> t])
            ELSE
              /\ Respond(r, req[r], 500, "store", Nothing)
              /\ UNCHANGED now
    /\ UNCHANGED <<views, executed, recent, nextId, created, failed, deleted,
                   ops>>

\* an Execute that infers the columns anew and stores them with the stats
ExecuteStats_RewritesColumns(r) ==
    /\ req[r].kind = "execute"
    /\ req[r].pc = "stats"
    /\ \E ok \in BOOLEAN, t \in Dates :
         /\ store' = IF ok
                     THEN findOneAndUpdate(
                            store, req[r].seg.segmentId,
                            [lastExecutedAt |-> req[r].at,
                             lastRowCount |-> req[r].exec.count,
                             columns |-> detectColumns(
                                            FirstRow(req[r].exec.customers))],
                            req[r].at)
                     ELSE store
         /\ IF ok
            THEN
              /\ now' = t
              /\ Respond(r, req[r], 200, "",
                         [columns |-> req[r].seg.columns,
                          rows |-> req[r].exec.customers,
                          rowCount |-> req[r].exec.count,
                          executedAt |-> t])
            ELSE
              /\ Respond(r, req[r], 500, "store", Nothing)
              /\ UNCHANGED now
    /\ UNCHANGED <<views, executed, recent, nextId, created, failed, deleted,
                   ops>>

\* updateSegmentExecution settles and the result is sent
ExecuteStats(r) ==
    /\ req[r].kind = "execute"
    /\ req[r].pc = "stats"
    /\ \E ok \in BOOLEAN, t \in Dates :
         /\ store' = updateSegmentExecution(store, req[r].seg.segmentId,
                                            req[r].exec.count, req[r].at, ok)
         /\ IF ok
            THEN
              /\ now' = t
              /\ Respond(r, req[r], 200, "",
                         [columns |-> req[r].seg.columns,
                          rows |-> req[r].exec.customers,
                          rowCount |-> req[r].exec.count,
                          executedAt |-> t])
            ELSE
              /\ Respond(r, req[r], 500, "store", Nothing)
              /\ UNCHANGED now
    /\ UNCHANGED <<views, executed, recent, nextId, created, failed, deleted,
                   ops>>

\* a Refresh that regenerates from the stored description
RefreshLookup_StoredDescription(r, id) ==
    /\ CanStart(r)
    /\ ops' = ops + 1
    /\ \E ok \in BOOLEAN :
         LET q == [req[r] EXCEPT !.kind = "refresh", !.id = id]
             segment == LookupSegment(store, id)
         IN  IF ~ok
             THEN /\ Respond(r, q, 500, "store", Nothing)
                  /\ UNCHANGED now
             ELSE IF segment = {}
             THEN /\ Respond(r, q, 404, "", Nothing)
                  /\ UNCHANGED now
             ELSE \E currentDate \in Dates :
                  /\ now' = currentDate
                  /\ Continue(r, [q EXCEPT
                        !.pc = "regen", !.seg = SegmentRead(TheDoc(segment)),
                        !.calls = <<[op |-> "refresh", id |-> id,
                                     arg |-> TheDoc(segment).description,
                                     currentDate |-> currentDate]>>])
    /\ UNCHANGED <<store, views, executed, recent, nextId, created, failed,
                   deleted>>

\* ------------------------------------------------ POST /:segmentId/refresh
\* getSegmentById settles; a visible segment sends the engine's refresh
RefreshLookup(r, id) ==
    /\ CanStart(r)
    /\ ops' = ops + 1
    /\ \E ok \in BOOLEAN :
         LET q == [req[r] EXCEPT !.kind = "refresh", !.id = id]
             segment == LookupSegment(store, id)
         IN  IF ~ok
             THEN /\ Respond(r, q, 500, "store", Nothing)
                  /\ UNCHANGED now
             ELSE IF segment = {}
             THEN /\ Respond(r, q, 404, "", Nothing)
                  /\ UNCHANGED now
             ELSE \E currentDate \in Dates :
                  /\ now' = currentDate
                  /\ Continue(r, [q EXCEPT
                        !.pc = "regen", !.seg = SegmentRead(TheDoc(segment)),
                        !.calls = <<[op |-> "refresh", id |-> id,
                                     arg |-> TheDoc(segment).originalPrompt,
                                     currentDate |-> currentDate]>>])
    /\ UNCHANGED <<store, views, executed, recent, nextId, created, failed,
                   deleted>>

\* a refresh that stamps the new createdDate whether or not the engine's
\* refresh succeeded
RefreshGenerated_StampsFirst(r) ==
    /\ req[r].kind = "refresh"
    /\ req[r].pc = "regen"
    /\ \E ok \in BOOLEAN, v \in Versions, t \in Dates :
         /\ now' = t
         /\ store' = updateSegment(store, req[r].seg.segmentId,
                                   [createdDate |-> t], t, TRUE)
         /\ IF ok
            THEN /\ views' = views \cup {ViewOf(req[r].seg.segmentId)}
                 /\ Continue(r, [req[r] EXCEPT
                                  !.pc = "update", !.at = t,
                                  !.gen = [name |-> GenName(v),
                                           description |-> GenDesc(v),
                                           sql |-> GenSql(v)]])
            ELSE /\ Respond(r, req[r], 500, "engine", Nothing)
                 /\ UNCHANGED views
    /\ UNCHANGED <<executed, recent, nextId, created, failed, deleted, ops>>

\* the engine's refresh answers; on success updateSegment is called
RefreshGenerated(r) ==
    /\ req[r].kind = "refresh"
    /\ req[r].pc = "regen"
    /\ \E ok \in BOOLEAN, v \in Versions, t \in Dates :
         IF ok
         THEN /\ views' = views \cup {ViewOf(req[r].seg.segmentId)}
              /\ now' = t
              /\ Continue(r, [req[r] EXCEPT
                               !.pc = "update", !.at = t,
                               !.gen = [name |-> GenName(v),
                                        description |-> GenDesc(v),
                                        sql |-> GenSql(v)]])
         ELSE /\ Respond(r, req[r], 500, "engine", Nothing)
              /\ UNCHANGED now
              /\ UNCHANGED views
    /\ UNCHANGED <<store, executed, recent, nextId, created, failed, deleted,
                   ops>>

\* a refresh that also stores the name of a view generated anew
RefreshDefinitionWrite_NewView(S, q, ok) ==
    IF ok
    THEN findOneAndUpdate(S, q.seg.segmentId,
                          [name |-> q.gen.name,
                           description |-> q.gen.description,
                           sqlQuery |-> q.gen.sql,
                           viewName |-> <<"segment_view_new", q.seg.segmentId>>,
                           createdDate |-> q.at], q.at)
    ELSE S

\* a refresh that holds the new definition back until the execution is done
RefreshDefinitionWrite_Deferred(S, q, ok) == S

\* an update that leaves sqlQuery and createdDate to a later write
RefreshDefinitionWrite_Partial(S, q, ok) ==
    updateSegment(S, q.seg.segmentId,
                  [name |-> q.gen.name,
                   description |-> q.gen.description], q.at, ok)

\* the route's updateSegment call with the regenerated definition
RefreshDefinitionWrite(S, q, ok) ==
    updateSegment(S, q.seg.segmentId,
                  [name |-> q.gen.name,
                   description |-> q.gen.description,
                   sqlQuery |-> q.gen.sql,
                   createdDate |-> q.at], q.at, ok)

\* updateSegment settles; then execute-view is called
RefreshUpdate(r) ==
    /\ req[r].kind = "refresh"
    /\ req[r].pc = "update"
    /\ \E ok \in BOOLEAN :
         /\ store' = RefreshDefinitionWrite(store, req[r], ok)
         /\ IF ok
            THEN
              /\ Continue(r, [req[r] EXCEPT
                               !.pc = "exec", !.gen = Nothing, !.at = 0,
                               !.calls = @ \o <<[op |-> "execute-view",
                                                 id |-> req[r].id,
                                                 arg |-> req[r].seg.viewName]>>])
            ELSE
              /\ Respond(r, req[r], 500, "store", Nothing)
    /\ UNCHANGED <<views, executed, recent, nextId, now, created, failed,
                   deleted, ops>>

\* execute-view answers; on success updateSegmentExecution is called
RefreshExecuted(r) ==
    /\ req[r].kind = "refresh"
    /\ req[r].pc = "exec"
    /\ \E ok \in BOOLEAN, customers \in CustomerLists, t \in Dates :
         IF ok /\ req[r].seg.viewName \in views
         THEN /\ executed' = executed \cup {req[r].seg.viewName}
              /\ recent' = Completed(recent, req[r].seg.viewName, t,
                                    Len(customers))
              /\ now' = t
              /\ Continue(r, [req[r] EXCEPT
                               !.pc = "stats", !.at = t,
                               !.exec = [customers |-> customers,
                                         count |-> Len(customers)]])
         ELSE /\ Respond(r, req[r], 500, "engine", Nothing)
              /\ UNCHANGED now
              /\ UNCHANGED <<executed, recent>>
    /\ UNCHANGED <<store, views, nextId, created, failed, deleted, ops>>

\* a refresh that infers the columns again from the rows it got
RefreshStatsWrite_Reinfer(S, q, ok) ==
    IF ok
    THEN findOneAndUpdate(S, q.seg.segmentId,
                          [lastExecutedAt |-> q.at,
                           lastRowCount |-> q.exec.count,
                           columns |-> detectColumns(FirstRow(q.exec.customers))],
                          q.at)
    ELSE S

\* the route's updateSegmentExecution call after the follow-up execution
RefreshStatsWrite(S, q, ok) ==
    updateSegmentExecution(S, q.seg.segmentId, q.exec.count, q.at, ok)

\* updateSegmentExecution settles; then the segment is read again
RefreshStats(r) ==
    /\ req[r].kind = "refresh"
    /\ req[r].pc = "stats"
    /\ \E ok \in BOOLEAN :
         /\ store' = RefreshStatsWrite(store, req[r], ok)
         /\ IF ok
            THEN Continue(r, [req[r] EXCEPT !.pc = "reread", !.at = 0])
            ELSE Respond(r, req[r], 500, "store", Nothing)
    /\ UNCHANGED <<views, executed, recent, nextId, now, created, failed,
                   deleted, ops>>

\* the second getSegmentById settles and the result is sent; reading
\* .columns of null throws into the catch block
RefreshReread(r) ==
    /\ req[r].kind = "refresh"
    /\ req[r].pc = "reread"
    /\ \E ok \in BOOLEAN, t \in Dates :
         LET updatedSegment == getSegmentById(store, req[r].seg.segmentId)
         IN  IF ~ok
             THEN /\ Respond(r, req[r], 500, "store", Nothing)
                  /\ UNCHANGED now
             ELSE IF updatedSegment = {}
             THEN /\ Respond(r, req[r], 500, "type", Nothing)
                  /\ UNCHANGED now
             ELSE /\ Respond(r, req[r], 200, "",
                       [segment |-> TheDoc(updatedSegment),
                        data |-> [columns |-> TheDoc(updatedSegment).columns,
                                  rows |-> req[r].exec.customers,
                                  rowCount |-> req[r].exec.count,
                                  executedAt |-> t]])
                  /\ now' = t
    /\ UNCHANGED <<store, views, executed, recent, nextId, created, failed,
                   deleted, ops>>

\* ------------------------------------------------------ DELETE /:segmentId
\* getSegmentById settles; a visible segment gets updateSegment called
DeleteLookup(r, id) ==
    /\ CanStart(r)
    /\ ops' = ops + 1
    /\ \E ok \in BOOLEAN, t \in Dates :
         LET q == [req[r] EXCEPT !.kind = "delete", !.id = id]
             segment == getSegmentById(store, id)
         IN  IF ~ok
             THEN /\ Respond(r, q, 500, "store", Nothing)
                  /\ UNCHANGED now
             ELSE IF segment = {}
             THEN /\ Respond(r, q, 404, "", Nothing)
                  /\ UNCHANGED now
             ELSE /\ Continue(r, [q EXCEPT
                         !.pc = "mark", !.at = t,
                         !.seg = SegmentRead(TheDoc(segment))])
                  /\ now' = t
    /\ UNCHANGED <<store, views, executed, recent, nextId, created, failed,
                   deleted>>

\* a DELETE that removes the record (deleteSegment) instead of marking it
DeleteMark_Hard(r) ==
    /\ req[r].kind = "delete"
    /\ req[r].pc = "mark"
    /\ \E ok \in BOOLEAN :
         /\ store' = IF ok THEN {d \in store : d.segmentId # req[r].id}
                     ELSE store
         /\ IF ok
            THEN /\ Respond(r, req[r], 200, "", [success |-> TRUE])
                 /\ deleted' = deleted \cup {req[r].id}
            ELSE /\ Respond(r, req[r], 500, "store", Nothing)
                 /\ UNCHANGED deleted
    /\ UNCHANGED <<views, executed, recent, nextId, now, created, failed, ops>>

\* a DELETE that also has the engine drop the view
DeleteMark_DropsView(r) ==
    /\ req[r].kind = "delete"
    /\ req[r].pc = "mark"
    /\ \E ok \in BOOLEAN :
         /\ store' = updateSegment(store, req[r].id,
                              [isDeleted |-> TRUE, deletedAt |-> req[r].at],
                              req[r].at, ok)
         /\ IF ok
            THEN /\ Respond(r, [req[r] EXCEPT
                                 !.calls = <<[op |-> "drop-view",
                                              id |-> req[r].id,
                                              arg |-> req[r].seg.viewName]>>],
                            200, "", [success |-> TRUE])
                 /\ deleted' = deleted \cup {req[r].id}
                 /\ views' = views \ {req[r].seg.viewName}
            ELSE /\ Respond(r, req[r], 500, "store", Nothing)
                 /\ UNCHANGED <<deleted, views>>
    /\ UNCHANGED <<executed, recent, nextId, now, created, failed, ops>>

\* updateSegment({isDeleted: true, deletedAt}) settles
DeleteMark(r) ==
    /\ req[r].kind = "delete"
    /\ req[r].pc = "mark"
    /\ \E ok \in BOOLEAN :
         /\ store' = updateSegment(store, req[r].id,
                              [isDeleted |-> TRUE, deletedAt |-> req[r].at],
                              req[r].at, ok)
         /\ IF ok
            THEN /\ Respond(r, req[r], 200, "", [success |-> TRUE])
                 /\ deleted' = deleted \cup {req[r].id}
            ELSE /\ Respond(r, req[r], 500, "store", Nothing)
                 /\ UNCHANGED deleted
    /\ UNCHANGED <<views, executed, recent, nextId, now, created, failed, ops>>

\* ---------------------------------------------------------- specification
Next ==
    \/ List
    \/ \E id \in Ids : Get(id)
    \/ \E r \in Reqs, d \in Descriptions, u \in Users : CreateStart(r, d, u)
    \/ \E r \in Reqs : CreateGenerated(r)
    \/ \E r \in Reqs : CreateExecuted(r)
    \/ \E r \in Reqs : CreateInsert(r)
    \/ \E r \in Reqs, i \in ToolInputs, u \in ToolUsers : ToolStart(r, i, u)
    \/ \E r \in Reqs : ToolGenerated(r)
    \/ \E r \in Reqs : ToolExecuted(r)
    \/ \E r \in Reqs : ToolInsert(r)
    \/ \E r \in Reqs, id \in Ids : ExecuteLookup(r, id)
    \/ \E r \in Reqs : ExecuteAnswered(r)
    \/ \E r \in Reqs : ExecuteStats(r)
    \/ \E r \in Reqs, id \in Ids : RefreshLookup(r, id)
    \/ \E r \in Reqs : RefreshGenerated(r)
    \/ \E r \in Reqs : RefreshUpdate(r)
    \/ \E r \in Reqs : RefreshExecuted(r)
    \/ \E r \in Reqs : RefreshStats(r)
    \/ \E r \in Reqs : RefreshReread(r)
    \/ \E r \in Reqs, id \in Ids : DeleteLookup(r, id)
    \/ \E r \in Reqs : DeleteMark(r)

Spec == Init /\ [][Next]_vars

\* ------------------------------------------- the inference step on its own
\* The sample rows the engine can answer a first execution with: up to
\* MaxKeys distinct keys, each with any of the values.
MaxKeys == 3

SampleKeys ==
    { <<"c","u","s","t","n","a","m","e">>,
      <<"t","o","t","a","l","s","p","e","n","d">>,
      <<"j","o","i","n","d","a","t","e">>,
      <<"_","j","o","i","n","_","d","a","t","e">>,
      <<"t","a","g","s">> }

SampleValues ==
    { StrV(<<"A","n","a">>),
      NumV(150000),
      StrV(<<"2","0","2","4","-","0","1","-","0","5">>),
      NullV,
      UndefV,
      ObjV,
      ArrV(<<StrV(<<"2","0","2","4","-","0","1","-","0","5">>),
             StrV(<<"v","i","p">>)>>),
      ArrV(<<NumV(7), NullV>>) }

SampleEntries == [key : SampleKeys, value : SampleValues]

SampleRows ==
    { RowObj(e) : e \in
        { e \in UNION { [1..n -> SampleEntries] : n \in 0..MaxKeys } :
            \A i, j \in DOMAIN e : i # j => e[i].key # e[j].key } }

\* a POST / whose engine calls have both answered, the second with one row
AwaitingInsert(row) ==
    [kind |-> "create", pc |-> "insert", id |-> 1,
     desc |-> <<"a","k","t","i","f">>, actor |-> "u1", seg |-> Nothing,
     gen |-> [name |-> GenName(1), description |-> GenDesc(1),
              sql |-> GenSql(1), viewName |-> ViewOf(1)],
     exec |-> [customers |-> <<row>>, count |-> 1], at |-> 1,
     calls |-> <<[op |-> "create", id |-> 1, arg |-> <<"a","k","t","i","f">>,
                  currentDate |-> 1],
                 [op |-> "execute-view", id |-> 1, arg |-> ViewOf(1)]>>,
     input |-> <<>>]

InferInit ==
    /\ store = {}
    /\ views = {ViewOf(1)}
    /\ executed = {ViewOf(1)}
    /\ recent = Completed([v \in {} |-> Nothing], ViewOf(1), 1, 1)
    /\ nextId = 2
    /\ now = 1
    /\ \E row \in SampleRows :
          req = [r \in Reqs |-> IF r = 1 THEN AwaitingInsert(row) ELSE IdleReq]
    /\ last = NoResponse
    /\ created = {}
    /\ failed = {}
    /\ deleted = {}
    /\ ops = 1

InferNext == \E r \in Reqs : CreateInsert(r)

SpecInfer == InferInit /\ [][InferNext]_vars

\* ------------------------------------------- the reads over a filled store
\* List and Get read the collection and nothing else; this specification
\* starts them on collections of up to MaxDocs records, each written by
\* createSegment and some of them marked by a later DELETE.
MaxDocs == 3
DocIds == 1..MaxDocs

\* the record POST / stored for segment id at time t, and what DELETE made
\* of it when del
SampleRecord(id, t, del) ==
    LET p == [segmentId |-> id,
              name |-> GenName(1),
              description |-> GenDesc(1),
              originalPrompt |-> <<"a","k","t","i","f">>,
              sqlQuery |-> GenSql(1),
              viewName |-> ViewOf(id),
              columns |-> detectColumns(RowBudi),
              createdBy |-> "u1",
              createdDate |-> t,
              isDeleted |-> FALSE,
              lastExecutedAt |-> t,
              lastRowCount |-> 1]
        S == createSegment({}, p, t, TRUE)
    IN  IF del
        THEN updateSegment(S, id, [isDeleted |-> TRUE, deletedAt |-> MaxTime],
                           MaxTime, TRUE)
        ELSE S

\* per segment id: not stored, or stored at a time and deleted or not
SampleFates == {<<0, FALSE>>} \cup ((1..MaxTime) \X BOOLEAN)

SampleStores ==
    { UNION { IF f[id][1] = 0 THEN {}
              ELSE SampleRecord(id, f[id][1], f[id][2]) : id \in DocIds } :
        f \in [DocIds -> SampleFates] }

ReadInit ==
    /\ store \in SampleStores
    /\ views = {d.viewName : d \in store}
    /\ executed = views
    /\ recent = [v \in views |-> [at |-> 1, count |-> 1]]
    /\ nextId = MaxDocs + 1
    /\ now = MaxTime
    /\ req = [r \in Reqs |-> IdleReq]
    /\ last = NoResponse
    /\ created = {Identity(d) : d \in store}
    /\ failed = {}
    /\ deleted = {d.segmentId : d \in {e \in store : e.isDeleted}}
    /\ ops = 0

ReadNext ==
    \/ List
    \/ \E id \in DocIds : Get(id)

SpecRead == ReadInit /\ [][ReadNext]_vars

\* ------------------------------------------ inserts with colliding uuidv4 ids
\* Spec lets uuidv4 return a fresh id every time.  Nothing in the handlers
\* makes it so: this specification starts a POST / and a tool call that both
\* await their insert, with any of MaxDraw ids each, the same id and the id of
\* a stored or soft-deleted record included, and leaves the unique index on
\* segmentId to decide the inserts.  A DELETE may run beside them.
MaxDraw == 2
DrawIds == 1..MaxDraw

\* a creation of the given path whose engine calls have both answered
AwaitingInsertOf(kind, segmentId, customers) ==
    [kind |-> kind, pc |-> "insert", id |-> segmentId,
     desc |-> <<"a","k","t","i","f">>, actor |-> "u1", seg |-> Nothing,
     gen |-> [name |-> GenName(1), description |-> GenDesc(1),
              sql |-> GenSql(1), viewName |-> ViewOf(segmentId)],
     exec |-> [customers |-> customers, count |-> Len(customers)],
     at |-> MaxTime,
     calls |-> <<[op |-> "create", id |-> segmentId,
                  arg |-> <<"a","k","t","i","f">>, currentDate |-> 1],
                 [op |-> "execute-view", id |-> segmentId,
                  arg |-> ViewOf(segmentId)]>>,
     input |-> IF kind = "tool"
               THEN SegmentCommand \o <<" ","a","k","t","i","f">>
               ELSE <<>>]

DrawInit ==
    /\ store \in {{}, SampleRecord(1, 1, FALSE), SampleRecord(1, 1, TRUE)}
    /\ \E id1, id2 \in DrawIds, c1, c2 \in CustomerLists :
          /\ req = [r \in Reqs |->
                      IF r = 1 THEN AwaitingInsertOf("create", id1, c1)
                      ELSE IF r = 2 THEN AwaitingInsertOf("tool", id2, c2)
                      ELSE IdleReq]
          /\ views = {d.viewName : d \in store} \cup {ViewOf(id1), ViewOf(id2)}
    /\ executed = views
    /\ recent = [v \in views |-> [at |-> MaxTime, count |-> 1]]
    /\ nextId = MaxDraw + 1
    /\ now = MaxTime
    /\ last = NoResponse
    /\ created = {Identity(d) : d \in store}
    /\ failed = {}
    /\ deleted = {d.segmentId : d \in {e \in store : e.isDeleted}}
    /\ ops = 2

DrawNext ==
    \/ \E r \in Reqs : CreateInsert(r)
    \/ \E r \in Reqs : ToolInsert(r)
    \/ \E r \in Reqs, id \in DrawIds : DeleteLookup(r, id)
    \/ \E r \in Reqs : DeleteMark(r)

SpecDraw == DrawInit /\ [][DrawNext]_vars

\* ------------------------------------------------- the view-recreation script
\* recreateSegmentViews runs as a process of its own, beside the server: it
\* connects, lists the segments and asks the engine to refresh each valid one
\* in turn, then exits.  It is given a slot like a handler; its exit status
\* takes the place of the response status.

\* the record of a segment whose engine answer carried an empty viewName
UnnamedRecord(id, t) ==
    {[d EXCEPT !.viewName = <<>>] : d \in SampleRecord(id, t, FALSE)}

\* per segment id: not stored, or stored at a time and live, soft-deleted or
\* without a view name
ScriptFates ==
    {<<0, "none">>} \cup ((1..MaxTime) \X {"live", "deleted", "unnamed"})

ScriptStores ==
    { UNION { IF f[id][1] = 0 THEN {}
              ELSE IF f[id][2] = "unnamed" THEN UnnamedRecord(id, f[id][1])
              ELSE SampleRecord(id, f[id][1], f[id][2] = "deleted") :
              id \in DocIds } :
        f \in [DocIds -> ScriptFates] }

\* (s) => !s.isDeleted && s.originalPrompt && s.viewName
ValidSegment(s) ==
    /\ ~("isDeleted" \in DOMAIN s /\ s.isDeleted)
    /\ "originalPrompt" \in DOMAIN s /\ Len(s.originalPrompt) > 0
    /\ "viewName" \in DOMAIN s /\ Len(s.viewName) > 0

\* the body of axios.post(`.../api/segments/${segment.segmentId}/refresh`)
RefreshCall(segment, currentDate) ==
    [op |-> "refresh", id |-> segment.segmentId,
     arg |-> segment.originalPrompt, currentDate |-> currentDate]

\* what the script has done when it exits
Summary(q) ==
    [refreshed |-> [i \in 1..Len(q.calls) |-> q.calls[i].id],
     successCount |-> q.seg.successCount,
     failCount |-> q.seg.failCount]

\* process.exit(code)
Exit(r, q, code, err) == Respond(r, q, code, err, Summary(q))

\* await connectDb()
RecreateConnect(r) ==
    /\ CanStart(r)
    /\ ops' = ops + 1
    /\ \E ok \in BOOLEAN :
         LET q == [req[r] EXCEPT
                     !.kind = "recreate",
                     !.seg = [validSegments |-> <<>>, successCount |-> 0,
                              failCount |-> 0]]
         IN  IF ok THEN Continue(r, [q EXCEPT !.pc = "fetch"])
             ELSE Exit(r, q, 1, "fatal")
    /\ UNCHANGED <<store, views, executed, recent, nextId, now, created,
                   failed, deleted>>

\* await getSegments(), the filter, and the first refresh call if any
RecreateFetch(r) ==
    /\ req[r].kind = "recreate"
    /\ req[r].pc = "fetch"
    /\ \E ok \in BOOLEAN :
         IF ~ok
         THEN /\ Exit(r, req[r], 1, "fatal")
              /\ UNCHANGED now
         ELSE \E segments \in SortedListings(store) :
              LET validSegments == SelectSeq(segments, ValidSegment)
              IN  IF Len(validSegments) = 0
                  THEN /\ Exit(r, req[r], 0, "")
                       /\ UNCHANGED now
                  ELSE \E currentDate \in Dates :
                       /\ now' = currentDate
                       /\ Continue(r, [req[r] EXCEPT
                             !.pc = "refresh",
                             !.seg.validSegments = validSegments,
                             !.calls = <<RefreshCall(validSegments[1],
                                                     currentDate)>>])
    /\ UNCHANGED <<store, views, executed, recent, nextId, created, failed,
                   deleted, ops>>

\* a loop that gives up at the first refresh that fails
RecreateAnswered_StopsAtFailure(r) ==
    /\ req[r].kind = "recreate"
    /\ req[r].pc = "refresh"
    /\ \E ok \in BOOLEAN :
         LET n == Len(req[r].calls)
             q == [req[r] EXCEPT
                     !.seg.successCount = @ + (IF ok THEN 1 ELSE 0),
                     !.seg.failCount = @ + (IF ok THEN 0 ELSE 1)]
         IN  /\ views' = IF ok THEN views \cup {ViewOf(req[r].calls[n].id)}
                         ELSE views
             /\ IF ok /\ n < Len(q.seg.validSegments)
                THEN \E currentDate \in Dates :
                     /\ now' = currentDate
                     /\ Continue(r, [q EXCEPT !.calls = Append(@,
                           RefreshCall(q.seg.validSegments[n + 1],
                                       currentDate))])
                ELSE /\ Exit(r, q, IF q.seg.failCount > 0 THEN 1 ELSE 0, "")
                     /\ UNCHANGED now
    /\ UNCHANGED <<store, executed, recent, nextId, created, failed, deleted,
                   ops>>

\* the engine answers the refresh of the segment in turn: the count, then the
\* next segment's call, or the summary and the exit
RecreateAnswered(r) ==
    /\ req[r].kind = "recreate"
    /\ req[r].pc = "refresh"
    /\ \E ok \in BOOLEAN :
         LET n == Len(req[r].calls)
             q == [req[r] EXCEPT
                     !.seg.successCount = @ + (IF ok THEN 1 ELSE 0),
                     !.seg.failCount = @ + (IF ok THEN 0 ELSE 1)]
         IN  /\ views' = IF ok THEN views \cup {ViewOf(req[r].calls[n].id)}
                         ELSE views
             /\ IF n < Len(q.seg.validSegments)
                THEN \E currentDate \in Dates :
                     /\ now' = currentDate
                     /\ Continue(r, [q EXCEPT !.calls = Append(@,
                           RefreshCall(q.seg.validSegments[n + 1],
                                       currentDate))])
                ELSE /\ Exit(r, q, IF q.seg.failCount > 0 THEN 1 ELSE 0, "")
                     /\ UNCHANGED now
    /\ UNCHANGED <<store, executed, recent, nextId, created, failed, deleted,
                   ops>>

\* the script run once, over a store of up to MaxDocs records
ScriptInit ==
    /\ store \in ScriptStores
    /\ views = {}
    /\ executed = {}
    /\ recent = [v \in {} |-> Nothing]
    /\ nextId = MaxDocs + 1
    /\ now = 1
    /\ req = [r \in Reqs |-> IdleReq]
    /\ last = NoResponse
    /\ created = {Identity(d) : d \in store}
    /\ failed = {}
    /\ deleted = {d.segmentId : d \in {e \in store : e.isDeleted}}
    /\ ops = MaxOps - 1

ScriptNext ==
    \/ \E r \in Reqs : RecreateConnect(r)
    \/ \E r \in Reqs : RecreateFetch(r)
    \/ \E r \in Reqs : RecreateAnswered(r)

SpecScript == ScriptInit /\ [][ScriptNext]_vars

\* ---------------------------------------------- updateSegment called directly
\* The handlers call updateSegment with allowed fields only.  This
\* specification calls it once on a stored record with any one or two of the
\* fields a caller could name, each given a value the record does not hold.
MaxFields == 2

\* a value for each field of a segment, new to every sample record
UpdateValues ==
    [name |-> <<"X">>, description |-> <<"Y">>, sqlQuery |-> <<"Z">>,
     createdDate |-> MaxTime + 1, isDeleted |-> TRUE,
     deletedAt |-> MaxTime + 1, segmentId |-> MaxDocs + 1,
     viewName |-> ViewOf(MaxDocs + 1), columns |-> <<>>,
     originalPrompt |-> <<"x">>, createdBy |-> "u2", lastRowCount |-> 7,
     lastExecutedAt |-> MaxTime + 1]

\* the updates arguments: up to MaxFields fields
SampleUpdates ==
    {[f \in F |-> UpdateValues[f]] :
        F \in {G \in SUBSET DOMAIN UpdateValues : Cardinality(G) <= MaxFields}}

\* one call updateSegment(segmentId, updates), and what it returned or threw
UpdateSegmentCall(segmentId, updates) ==
    /\ ops < MaxOps
    /\ ops' = ops + 1
    /\ \E ok \in BOOLEAN, t \in Dates :
         LET q == [IdleReq EXCEPT !.kind = "update", !.id = segmentId]
         IN  /\ now' = t
             /\ store' = updateSegment(store, segmentId, updates, t, ok)
             /\ last' = Response(q, 0, IF ok THEN "" ELSE "store", updates)
    /\ UNCHANGED <<views, executed, recent, nextId, req, created, failed,
                   deleted>>

UpdateInit ==
    /\ store \in SampleStores
    /\ views = {d.viewName : d \in store}
    /\ executed = views
    /\ recent = [v \in views |-> [at |-> 1, count |-> 1]]
    /\ nextId = MaxDocs + 1
    /\ now = MaxTime
    /\ req = [r \in Reqs |-> IdleReq]
    /\ last = NoResponse
    /\ created = {Identity(d) : d \in store}
    /\ failed = {}
    /\ deleted = {d.segmentId : d \in {e \in store : e.isDeleted}}
    /\ ops = MaxOps - 1

UpdateNext ==
    \E segmentId \in DocIds, updates \in SampleUpdates :
       UpdateSegmentCall(segmentId, updates)

SpecUpdate == UpdateInit /\ [][UpdateNext]_vars

\* ------------------------------------------------ the two creation paths
\* Spec has one segment id to hand out, so that its two creation paths never
\* run in one behaviour.  Here uuidv4 has two ids left: POST / takes the
\* first and a CRMQuery call that arrives after it the second; the two run
\* side by side or one after the other, each with engine answers of its own.
\* inputs of the tool: those of Spec, the command followed by each of the
\* descriptions a caller posts, the empty one included, and no input at all
CommandInputs ==
    ToolInputs \cup {SegmentCommand \o <<" ">> \o d : d \in Descriptions}
       \cup {<<>>}

PairInit ==
    /\ store = {}
    /\ views = {}
    /\ executed = {}
    /\ recent = [v \in {} |-> Nothing]
    /\ nextId = MaxSeg - 1
    /\ now = 1
    /\ req = [r \in Reqs |-> IdleReq]
    /\ last = NoResponse
    /\ created = {}
    /\ failed = {}
    /\ deleted = {}
    /\ ops = MaxOps - 2

PairNext ==
    \/ \E r \in Reqs, description \in Descriptions, user \in Users :
          nextId < MaxSeg /\ CreateStart(r, description, user)
    \/ \E r \in Reqs : CreateGenerated(r)
    \/ \E r \in Reqs : CreateExecuted(r)
    \/ \E r \in Reqs : CreateInsert(r)
    \/ \E r \in Reqs, input \in CommandInputs, userId \in Users :
          nextId = MaxSeg /\ ToolStart(r, input, userId)
    \/ \E r \in Reqs : ToolGenerated(r)
    \/ \E r \in Reqs : ToolExecuted(r)
    \/ \E r \in Reqs : ToolInsert(r)

SpecPair == PairInit /\ [][PairNext]_vars

\* ------------------------------------------------- CRMQuery._call on its own
\* the tool alone, called with every input of CommandInputs, with and
\* without a user id
ToolNext ==
    \/ \E r \in Reqs, input \in CommandInputs, userId \in ToolUsers :
          ToolStart(r, input, userId)
    \/ \E r \in Reqs : ToolGenerated(r)
    \/ \E r \in Reqs : ToolExecuted(r)
    \/ \E r \in Reqs : ToolInsert(r)

SpecTool == Init /\ [][ToolNext]_vars

\* ---------------------------------------------- requests whose calls return
\* Every step after the first of a handler is the return of the call it
\* awaits.  A call that eventually returns, with an answer or an error, is a
\* step that is taken once it has become possible: it stays possible until
\* taken, since no other handler touches the slot.

\* the step that the call awaited by the handler in slot r returns
Returns(r) ==
    \/ CreateGenerated(r) \/ CreateExecuted(r) \/ CreateInsert(r)
    \/ ExecuteAnswered(r) \/ ExecuteStats(r)
    \/ RefreshGenerated(r) \/ RefreshUpdate(r) \/ RefreshExecuted(r)
    \/ RefreshStats(r) \/ RefreshReread(r)
    \/ DeleteMark(r)

\* two requests of the routes, side by side or one after the other, over an
\* empty store or over one that holds a record
LiveInit ==
    /\ store \in {{}, SampleRecord(1, 1, FALSE)}
    /\ views = {d.viewName : d \in store}
    /\ executed = views
    /\ recent = [v \in views |-> [at |-> 1, count |-> 1]]
    /\ nextId = Cardinality(store) + 1
    /\ now = 1
    /\ req = [r \in Reqs |-> IdleReq]
    /\ last = NoResponse
    /\ created = {Identity(d) : d \in store}
    /\ failed = {}
    /\ deleted = {}
    /\ ops = MaxOps - 2

LiveNext ==
    \/ \E r \in Reqs, d \in Descriptions, u \in Users : CreateStart(r, d, u)
    \/ \E r \in Reqs, id \in Ids : ExecuteLookup(r, id)
    \/ \E r \in Reqs, id \in Ids : RefreshLookup(r, id)
    \/ \E r \in Reqs, id \in Ids : DeleteLookup(r, id)
    \/ \E r \in Reqs : Returns(r)

SpecLive ==
    LiveInit /\ [][LiveNext]_vars /\ \A r \in Reqs : WF_vars(Returns(r))

-----------------------------------------------------------------------------
\* Properties of segment creation

\* C1: a Create (route or tool) that failed at view generation, at the first
\* execution or at the store insert leaves no document with the segmentId it
\* had allocated, so no List or Get can return one.
C1_NoPartialCreation ==
    \A id \in failed :
        /\ RawFind(store, id) = {}
        /\ getSegmentById(store, id) = {}
        /\ \A d \in getSegments(store) : d.segmentId # id

\* a Create has just failed at the store insert, after both engine calls
C1_Witness ==
    /\ last.kind = "create"
    /\ last.status = 500
    /\ last.err = "store"
    /\ last.id \in failed
    /\ last.calls = <<"create", "execute-view">>

\* C2: a Create whose first execution returns no rows is rejected and stores
\* nothing, so no stored segment and no answer of Create has an empty
\* columns list.
C2_EmptyResultRejected ==
    /\ \A d \in store : Len(d.columns) > 0
    /\ (last.kind = "create" /\ last.status = 201)
          => Len(last.body.columns) > 0

\* the steps of one Create, route or tool, in the order they may follow
CreateOrder == {<<"idle", "gen">>, <<"gen", "exec">>, <<"exec", "insert">>}

\* a Create changes step only along CreateOrder
CreateStepsInOrder ==
    \A r \in Reqs :
        (req'[r].kind \in {"create", "tool"} /\ req'[r].pc # req[r].pc)
           => <<req[r].pc, req'[r].pc>> \in CreateOrder

\* a document enters the store only in the step that follows the generation
\* and the execution of the view it names
InsertedWhenExecuted ==
    \A d \in store' :
        RawFind(store, d.segmentId) = {}
           => \E r \in Reqs :
                 /\ req[r].kind \in {"create", "tool"}
                 /\ req[r].pc = "insert"
                 /\ req[r].id = d.segmentId
                 /\ req[r].gen.viewName = d.viewName
                 /\ d.viewName \in views
                 /\ d.viewName \in executed

-----------------------------------------------------------------------------
\* Properties of Execute and Refresh

\* the step is one of an Execute request
ExecuteStep ==
    \/ last'.kind = "execute"
    \/ \E r \in Reqs : req'[r] # req[r] /\ req'[r].kind = "execute"

\* C4: an Execute that fails (segment not found, engine call failed, store
\* call failed) writes nothing: the only step of an Execute that changes the
\* store is the one that answers 200, and it comes after the engine call
\* succeeded, so lastExecutedAt and lastRowCount are as before the call.
C4_FailedExecuteKeepsStats ==
    [][ExecuteStep =>
          \/ store' = store
          \/ /\ last'.kind = "execute"
             /\ last'.status = 200
             /\ last'.calls = <<"execute-view">>]_vars

\* an Execute of a stored, visible segment has just failed at the engine
C4_Witness ==
    /\ last.kind = "execute"
    /\ last.status = 500
    /\ last.err = "engine"
    /\ last.calls = <<"execute-view">>
    /\ getSegmentById(store, last.id) # {}

\* C5: the segmentId and the viewName that Create answered with stay in the
\* stored document whatever Refresh, Execute and soft delete do afterwards.
C5_IdentityStable ==
    \A c \in created :
        \E d \in store :
            /\ d.segmentId = c.segmentId
            /\ d.viewName = c.viewName

\* a segment that was refreshed after its creation and then soft-deleted
C5_Witness ==
    \E d \in store :
        /\ Identity(d) \in created
        /\ d.createdDate > d.createdAt
        /\ d.isDeleted
        /\ d.segmentId \in deleted

\* C6: the columns Get answers with are those Create answered with, after
\* any number of refreshes and whatever rows the refreshed view gives back:
\* Refresh never writes columns.
C6_ColumnsStable ==
    /\ \A c \in created :
          \A d \in RawFind(store, c.segmentId) : d.columns = c.columns
    /\ (last.kind = "get" /\ last.status = 200)
          => \E c \in created :
                /\ c.segmentId = last.id
                /\ last.body.columns = c.columns

\* Get answers with the three columns of the creation, after a refresh whose
\* execution gave two rows that start with a row of another shape
C6_Witness ==
    /\ last.kind = "get"
    /\ last.status = 200
    /\ last.body.createdDate > last.body.createdAt
    /\ last.body.lastExecutedAt = last.body.createdDate
    /\ last.body.lastRowCount = 2
    /\ last.body.columns = detectColumns(RowBudi)
    /\ detectColumns(RowAna) # detectColumns(RowBudi)

-----------------------------------------------------------------------------
\* Properties of soft delete

StartOf(k, id) ==
    /\ ops' = ops + 1
    /\ \/ last'.kind = k /\ last'.id = id
       \/ \E r \in Reqs :
             req'[r] # req[r] /\ req'[r].kind = k /\ req'[r].id = id

\* no document with this id, or a soft-deleted one
AbsentOrDeleted(id) == \A d \in RawFind(store, id) : d.isDeleted

\* the request answers not found in its first step (500 when the lookup
\* itself throws), with no engine call and no write
NotFoundAtOnce(k, id) ==
    /\ last'.kind = k
    /\ last'.id = id
    /\ last'.status = 404 \/ (last'.status = 500 /\ last'.err = "store")
    /\ last'.calls = <<>>
    /\ store' = store
    /\ views' = views
    /\ executed' = executed

C9_DeletedRecordFrozen ==
    [][\A d \in store : d.isDeleted => d \in store']_vars

-----------------------------------------------------------------------------
\* Properties of column inference

\* this step is the insert of document d by the Create in slot r
Inserts(r, d) ==
    /\ req[r].kind \in {"create", "tool"}
    /\ req[r].pc = "insert"
    /\ d \in store'
    /\ d.segmentId = req[r].id
    /\ RawFind(store, d.segmentId) = {}

\* the entries of the sample row the Create in slot r infers from
SampleOf(r) == FirstRow(req[r].exec.customers).entries

\* the row {custname: Ana, totalspend: 150000, joindate: 2024-01-05}
RowAnaSpend == RowObj(
    << [key |-> <<"c","u","s","t","n","a","m","e">>,
        value |-> StrV(<<"A","n","a">>)],
       [key |-> <<"t","o","t","a","l","s","p","e","n","d">>,
        value |-> NumV(150000)],
       [key |-> <<"j","o","i","n","d","a","t","e">>,
        value |-> StrV(<<"2","0","2","4","-","0","1","-","0","5">>)] >>)

\* C11: a column with a numeric value under a key with a monetary hint
\* (price, total, amount) is inferred as currency, not number; the row
\* {custname: Ana, totalspend: 150000, joindate: 2024-01-05} gives the
\* types string, currency, date in that order.
C11_CurrencyOverNumber ==
    [][\A r \in Reqs : \A d \in store' :
          Inserts(r, d) =>
             /\ \A i \in 1..Len(SampleOf(r)) :
                   (SampleOf(r)[i].value.t = "number"
                        /\ MonetaryHint(SampleOf(r)[i].key))
                      => d.columns[i].type = "currency"
             /\ SampleOf(r) = RowAnaSpend.entries
                   => [i \in 1..3 |-> d.columns[i].type]
                         = <<"string", "currency", "date">>]_vars

-----------------------------------------------------------------------------
\* Properties of Refresh

\* slot r takes this step as a Refresh that is at program point pc
RefreshStepAt(r, pc) ==
    /\ req[r].kind = "refresh"
    /\ req[r].pc = pc
    /\ req'[r] # req[r]

\* C12: a Refresh whose generation call fails answers with an error, has
\* changed no field of any stored document and has not called execute-view;
\* up to and including the generation step a Refresh writes nothing.
C12_FailedGenerationWritesNothing ==
    [][/\ \A id \in Ids : StartOf("refresh", id) => store' = store
       /\ \A r \in Reqs :
             RefreshStepAt(r, "regen") =>
                /\ store' = store
                /\ executed' = executed
                /\ req'[r].pc = "idle" =>
                      /\ last'.kind = "refresh"
                      /\ last'.status = 500
                      /\ last'.calls = <<"refresh">>]_vars

\* a Refresh of a stored segment has just failed at the generation call
C12_Witness ==
    /\ last.kind = "refresh"
    /\ last.status = 500
    /\ last.err = "engine"
    /\ last.calls = <<"refresh">>
    /\ getSegmentById(store, last.id) # {}

\* the stored document of segment id carries the definition g, dated t
HasDefinition(d, g, t) ==
    /\ d.name = g.name
    /\ d.description = g.description
    /\ d.sqlQuery = g.sql
    /\ d.createdDate = t

\* the statistics of d are those of d0
SameStats(d, d0) ==
    /\ d.lastExecutedAt = d0.lastExecutedAt
    /\ d.lastRowCount = d0.lastRowCount

ExecutionPhaseFailed ==
    /\ last.kind = "refresh"
    /\ last.err = "engine"
    /\ last.calls = <<"refresh", "execute-view">>

\* C14: a Refresh whose generation succeeded and whose execution failed
\* answers with a partial success that carries the new segment definition,
\* not with the error answer of a Refresh that failed at the generation.
C14_PartialSuccessResult ==
    ExecutionPhaseFailed =>
        /\ last.status # 500
        /\ "segment" \in DOMAIN last.body

-----------------------------------------------------------------------------
\* Properties of the execution statistics

\* slot r takes this step as an Execute that is at program point pc
ExecuteStepAt(r, pc) ==
    /\ req[r].kind = "execute"
    /\ req[r].pc = pc
    /\ req'[r] # req[r]

\* C15: an Execute that succeeds stores the engine's count as lastRowCount,
\* moves lastExecutedAt to a time not earlier than the one stored before,
\* and answers with the segment's stored columns, the engine's rows and the
\* same count as rowCount.
C15_ExecuteStoresCount ==
    [][\A r \in Reqs :
          (ExecuteStepAt(r, "stats") /\ last'.status = 200) =>
             \A d0 \in RawFind(store, req[r].id) :
                \E d \in RawFind(store', req[r].id) :
                   /\ d.lastRowCount = req[r].exec.count
                   /\ d.lastExecutedAt >= d0.lastExecutedAt
                   /\ last'.body.columns = d.columns
                   /\ last'.body.rows = req[r].exec.customers
                   /\ last'.body.rowCount = req[r].exec.count]_vars

\* the as-of date a Refresh sent to the engine with its regeneration call
AsOfDate(r) == req[r].calls[1].currentDate

\* C16: a successful Refresh replaces the stored name, description and
\* sqlQuery by the engine's regenerated values and sets createdDate to the
\* as-of date of that regeneration, then sets lastRowCount to the count of
\* the follow-up execution, and answers with the stored segment and the rows
\* of that execution
C16_RefreshResult ==
    [][\A r \in Reqs :
          /\ (RefreshStepAt(r, "update") /\ req'[r].pc = "exec") =>
                \E d \in RawFind(store', req[r].seg.segmentId) :
                   HasDefinition(d, req[r].gen, AsOfDate(r))
          /\ (RefreshStepAt(r, "stats") /\ req'[r].pc = "reread") =>
                \E d \in RawFind(store', req[r].seg.segmentId) :
                   d.lastRowCount = req[r].exec.count
          /\ (RefreshStepAt(r, "reread") /\ last'.status = 200) =>
                /\ last'.body.segment \in RawFind(store, req[r].seg.segmentId)
                /\ last'.body.data.rows = req[r].exec.customers
                /\ last'.body.data.rowCount = req[r].exec.count]_vars

(***************************************************************************)
(* Properties of Create                                                    *)
(***************************************************************************)

CreateStepAt(r, pc) ==
    /\ req[r].kind = "create"
    /\ req[r].pc = pc
    /\ req'[r] # req[r]

C18_BlankDescriptionRejected ==
    [][/\ (last'.kind = "create" /\ last'.status = 400) =>
             /\ last'.calls = <<>>
             /\ store' = store
             /\ views' = views
       /\ \A r \in Reqs :
             (req[r].pc = "idle" /\ req'[r].kind = "create") =>
                Len(trim(req'[r].desc)) > 0]_vars

(***************************************************************************)
(* Properties of racing requests                                           *)
(***************************************************************************)

StatsOf(d) == <<d.lastExecutedAt, d.lastRowCount>>

\* the statistics a request at its stats step is about to write
StatsFrom(r) == <<req[r].at, req[r].exec.count>>

\* C19: every stats write of an Execute sets lastExecutedAt and lastRowCount
\* together to the values of that one request and answers with that count,
\* and the stored pair changes in no other way than by the stats write of
\* one Execute or Refresh, so that after racing Executes the stored
\* lastRowCount is the count returned to the last writer
C19_StatsWrittenTogether ==
    [][/\ \A r \in Reqs :
             (ExecuteStepAt(r, "stats") /\ last'.status = 200) =>
                /\ \A d \in RawFind(store', req[r].id) :
                      /\ StatsOf(d) = StatsFrom(r)
                      /\ d.lastRowCount = last'.body.rowCount
                /\ RawFind(store', req[r].id) # {}
       /\ \A d0 \in store : \A d \in RawFind(store', d0.segmentId) :
             StatsOf(d) # StatsOf(d0) =>
                \E r \in Reqs :
                   /\ ExecuteStepAt(r, "stats") \/ RefreshStepAt(r, "stats")
                   /\ req[r].seg.segmentId = d0.segmentId
                   /\ StatsOf(d) = StatsFrom(r)]_vars

\* two Executes of one segment race with different counts; one has just
\* answered and its statistics are stored while the other has yet to write
C19_Witness ==
    /\ last.kind = "execute"
    /\ last.status = 200
    /\ \E d \in RawFind(store, last.id) :
          /\ d.lastRowCount = last.body.rowCount
          /\ \E r \in Reqs :
                /\ req[r].kind = "execute"
                /\ req[r].pc = "stats"
                /\ req[r].id = last.id
                /\ req[r].exec.count # d.lastRowCount

Quiescent == \A r \in Reqs : req[r].pc = "idle"

\* C20: whenever no request is in flight, the lastExecutedAt and lastRowCount
\* of every stored segment are those of the execute-view the engine answered
\* last for its view
C20_StatsReflectLatestExecution ==
    Quiescent =>
       \A d \in store :
          d.viewName \in DOMAIN recent =>
             /\ d.lastExecutedAt = recent[d.viewName].at
             /\ d.lastRowCount = recent[d.viewName].count

(***************************************************************************)
(* Properties of the engine calls                                          *)
(***************************************************************************)

\* the names of the engine calls a request has issued so far
OpsOf(q) == [i \in 1..Len(q.calls) |-> q.calls[i].op]

\* the engine calls of each operation, in the order the handler issues them
EngineCallsOf(kind) ==
    CASE kind = "create"  -> <<"create", "execute-view">>
      [] kind = "tool"    -> <<"create", "execute-view">>
      [] kind = "execute" -> <<"execute-view">>
      [] kind = "refresh" -> <<"refresh", "execute-view">>
      [] OTHER            -> <<>>

IsPrefix(s, t) == Len(s) <= Len(t) /\ \A i \in 1..Len(s) : s[i] = t[i]

\* C21: no operation repeats an engine call: the calls a request has issued
\* are a prefix of its operation's one generation (or refresh) call followed
\* by one execute-view, and a request to which the engine has answered an
\* error ends at that step, with that error and without another call
C21_NoEngineRetry ==
    /\ [](\A r \in Reqs : IsPrefix(OpsOf(req[r]), EngineCallsOf(req[r].kind)))
    /\ [](IsPrefix(last.calls, EngineCallsOf(last.kind)))
    /\ [][\A r \in Reqs :
             (req'[r] # req[r] /\ last'.err \in {"engine", "failed"}
                /\ req[r].pc \in {"gen", "regen", "exec"}) =>
                /\ req'[r] = IdleReq
                /\ last'.status \in {500, 0}
                /\ last'.calls = OpsOf(req[r])]_vars

\* the engine has just answered an error to the execute-view of an Execute
C21_Witness ==
    /\ last.kind = "execute"
    /\ last.status = 500
    /\ last.err = "engine"
    /\ last.calls = <<"execute-view">>
    /\ \E r \in Reqs : req[r].kind = "refresh" /\ Len(req[r].calls) = 2

(***************************************************************************)
(* Properties of the reads                                                 *)
(***************************************************************************)

\* C22: a List that succeeds answers every stored record that is not
\* soft-deleted, each once and no other, newest creation time first; a Get
\* answers the record of that id when it is stored and not soft-deleted and
\* answers not-found otherwise; neither changes the store, the views or the
\* requests in flight, and neither calls the engine
C22_ReadsAnswerLiveRecords ==
    [][/\ last'.kind \in {"list", "get"} =>
             /\ store' = store
             /\ views' = views
             /\ req' = req
             /\ last'.calls = <<>>
       /\ (last'.kind = "list" /\ last'.status = 200) =>
             LET o == last'.body
             IN  /\ {o[i] : i \in DOMAIN o} = {d \in store : ~d.isDeleted}
                 /\ Len(o) = Cardinality({d \in store : ~d.isDeleted})
                 /\ \A i, j \in DOMAIN o :
                       i < j => o[i].createdAt >= o[j].createdAt
       /\ (last'.kind = "get" /\ last'.err # "store") =>
             LET live == {d \in store :
                             d.segmentId = last'.id /\ ~d.isDeleted}
             IN  IF live = {}
                 THEN last'.status = 404 /\ last'.body = Nothing
                 ELSE last'.status = 200 /\ last'.body \in live]_vars

\* a List has just answered two records, the newer first, from a store that
\* also holds a soft-deleted record, which the answer leaves out
C22_Witness ==
    /\ last.kind = "list"
    /\ last.status = 200
    /\ Len(last.body) = 2
    /\ last.body[1].createdAt > last.body[2].createdAt
    /\ \E d \in store :
          d.isDeleted /\ \A i \in DOMAIN last.body : last.body[i] # d

(***************************************************************************)
(* Properties of the stored records                                        *)
(***************************************************************************)

\* C23: a record that is in the store stays in the store: after every step
\* of every operation the store still holds a record of that segmentId,
\* created at the same time, and holds no fewer records than before
C23_NeverRemoved ==
    [][/\ \A d \in store :
             \E e \in store' :
                e.segmentId = d.segmentId /\ e.createdAt = d.createdAt
       /\ Cardinality(store') >= Cardinality(store)]_vars

\* a DELETE has just answered success for a record that an earlier Refresh had
\* rewritten, and the record is still stored
C23_Witness ==
    /\ last.kind = "delete"
    /\ last.status = 200
    /\ \E d \in RawFind(store, last.id) :
          /\ d.isDeleted
          /\ d.createdDate > d.createdAt

\* a step of either creation path that stores its record
InsertStepAt(r) ==
    /\ req[r].kind \in {"create", "tool"}
    /\ req[r].pc = "insert"
    /\ req'[r] # req[r]

ExecutionCalls(q) ==
    {q.calls[i] : i \in {j \in DOMAIN q.calls : q.calls[j].op = "execute-view"}}

C26_SegmentIdUnique ==
    /\ [](\A d, e \in store : d.segmentId = e.segmentId => d = e)
    /\ [][\A r \in Reqs : InsertStepAt(r) =>
             \A e \in store' \ store : RawFind(store, e.segmentId) = {}]_vars

\* an insert has just been refused for an id that a soft-deleted record holds
C26_Witness ==
    /\ last.kind = "create"
    /\ last.status = 500
    /\ last.err = "store"
    /\ \E d \in RawFind(store, last.id) : d.isDeleted
    /\ \E d \in store : d.segmentId # last.id /\ ~d.isDeleted

(***************************************************************************)
(* Frame properties                                                        *)
(***************************************************************************)

DeleteStep(r) ==
    \/ req[r].kind = "delete" /\ req'[r] # req[r]
    \/ req[r].pc = "idle" /\ req'[r].kind = "delete"
    \/ req[r].pc = "idle" /\ req'[r] = req[r] /\ last'.kind = "delete"

\* C27: no step of a DELETE calls the engine or changes the set of views, so
\* that the view of every deleted segment is still there for the engine to
\* execute; a DELETE of an id that has no record answers not-found at once
\* (or the error of the store) and writes nothing
C27_DeleteLeavesView ==
    /\ [][\A r \in Reqs : DeleteStep(r) =>
             /\ views' = views
             /\ executed' = executed
             /\ req'[r].calls = <<>>
             /\ last'.kind = "delete" => last'.calls = <<>>]_vars
    /\ [][\A id \in Ids :
             (StartOf("delete", id) /\ RawFind(store, id) = {}) =>
                /\ last'.kind = "delete"
                /\ last'.status = 404
                      \/ (last'.status = 500 /\ last'.err = "store")
                /\ store' = store]_vars
    /\ [](\A id \in deleted :
             \A d \in RawFind(store, id) : d.viewName \in views)

\* an Execute that was in flight when its segment was deleted has just been
\* answered the rows of the view
C27_Witness ==
    /\ last.kind = "execute"
    /\ last.status = 200
    /\ last.id \in deleted
    /\ \E d \in RawFind(store, last.id) : d.isDeleted /\ d.viewName \in views

\* the fields of a record that an Execute has no business with
KeptByExecute ==
    {"segmentId", "name", "description", "sqlQuery", "createdDate", "columns",
     "originalPrompt", "viewName", "createdBy", "isDeleted", "deletedAt",
     "createdAt"}

Restricted(d, fields) == [f \in (DOMAIN d \cap fields) |-> d[f]]

\* C28: every step of an Execute leaves the store holding the same records
\* with the same name, description, sqlQuery, createdDate, columns,
\* originalPrompt, viewName, createdBy, isDeleted and deletedAt; only
\* lastExecutedAt and lastRowCount (and the store's updatedAt) may differ
C28_ExecuteChangesStatsOnly ==
    [][ExecuteStep =>
          /\ {Restricted(d, KeptByExecute) : d \in store'}
                = {Restricted(d, KeptByExecute) : d \in store}
          /\ Cardinality(store') = Cardinality(store)]_vars

\* an Execute has just stored the count of rows whose first row would give
\* other columns than the record has
C28_Witness ==
    /\ last.kind = "execute"
    /\ last.status = 200
    /\ \E d \in RawFind(store, last.id) :
          /\ d.lastRowCount = last.body.rowCount
          /\ d.lastRowCount > 0
          /\ d.columns # detectColumns(FirstRow(last.body.rows))
          /\ d.columns = last.body.columns

(***************************************************************************)
(* Properties of the definition write of Refresh                           *)
(***************************************************************************)

DefinitionOf(d) == <<d.name, d.description, d.sqlQuery, d.createdDate>>

\* name, description and sqlQuery of one answer of the engine
OneGeneration(d) ==
    \E v \in Versions :
       /\ d.name = GenName(v)
       /\ d.description = GenDesc(v)
       /\ d.sqlQuery = GenSql(v)

ColumnTypes == {"string", "number", "date", "currency"}

\* C30: the columns stored with a new segment are one per key of the sample
\* row, in the order of the row's keys, each carrying the key of its entry
\* and one of the types string, number, date and currency
C30_OneColumnPerKey ==
    [][\A r \in Reqs : \A d \in store' :
          Inserts(r, d) =>
             /\ Len(d.columns) = Len(SampleOf(r))
             /\ \A i \in DOMAIN d.columns :
                   /\ d.columns[i].key = SampleOf(r)[i].key
                   /\ d.columns[i].type \in ColumnTypes
             /\ last'.body.columns = d.columns]_vars

\* a Create has just stored the columns of the row {totalspend: "Ana",
\* custname: "Ana", joindate: "2024-01-05"}, in that order
C30_Witness ==
    /\ last.kind = "create"
    /\ last.status = 201
    /\ last.body \in store
    /\ Len(last.body.columns) = 3
    /\ last.body.columns[1].key = <<"t","o","t","a","l","s","p","e","n","d">>
    /\ last.body.columns[1].type = "currency"
    /\ last.body.columns[2].key = <<"c","u","s","t","n","a","m","e">>
    /\ last.body.columns[2].type = "string"
    /\ last.body.columns[3].key = <<"j","o","i","n","d","a","t","e">>
    /\ last.body.columns[3].type = "date"

\* the sample row of a creation that awaits its insert
PendingSample(r) == FirstRow(req[r].exec.customers)

\* the row {totalspend: null, custname: undefined, joindate: null}
RowNulls == RowObj(
    << [key |-> <<"t","o","t","a","l","s","p","e","n","d">>, value |-> NullV],
       [key |-> <<"c","u","s","t","n","a","m","e">>, value |-> UndefV],
       [key |-> <<"j","o","i","n","d","a","t","e">>, value |-> NullV] >>)

\* C31: the inference yields a column for every entry of a sample row that
\* holds null or undefined values, and the type of such an entry is currency
\* when its key has a monetary hint and string when it has none
C31_NullValuesAreStrings ==
    /\ [](\A r \in Reqs :
             (req[r].kind = "create" /\ req[r].pc = "insert") =>
                Len(detectColumns(PendingSample(r)))
                   = Len(PendingSample(r).entries))
    /\ [][\A r \in Reqs : \A d \in store' :
             Inserts(r, d) =>
                \A i \in 1..Len(SampleOf(r)) :
                   SampleOf(r)[i].value.t \in {"null", "undefined"} =>
                      d.columns[i].type =
                         IF MonetaryHint(SampleOf(r)[i].key)
                         THEN "currency" ELSE "string"]_vars

\* a Create has just stored the columns of the row
\* {totalspend: null, custname: undefined, joindate: null}
C31_Witness ==
    /\ last.kind = "create"
    /\ last.status = 201
    /\ last.body \in store
    /\ last.body.columns = detectColumns(RowNulls)
    /\ [i \in 1..3 |-> last.body.columns[i].type]
          = <<"currency", "string", "string">>

\* C32: an entry of the sample row whose value is a nested object or an
\* array, whatever the array holds, under a key without a monetary hint is
\* inferred as string
C32_ObjectsAndArraysAreStrings ==
    [][\A r \in Reqs : \A d \in store' :
          Inserts(r, d) =>
             \A i \in 1..Len(SampleOf(r)) :
                (SampleOf(r)[i].value.t \in {"object", "array"}
                     /\ ~MonetaryHint(SampleOf(r)[i].key))
                   => d.columns[i].type = "string"]_vars

\* the key with its first character capitalized and every underscore, a
\* leading one included, replaced by a space
SpacedLabel(key) ==
    [i \in 1..Len(key) |->
        IF key[i] = "_" THEN " "
        ELSE IF i = 1 THEN toUpperCase(key[1]) ELSE key[i]]

\* C33: the label of every inferred column is its key with the first
\* character capitalized and every underscore replaced by a space, a leading
\* underscore included
C33_LabelFromKey ==
    [][\A r \in Reqs : \A d \in store' :
          Inserts(r, d) =>
             \A i \in 1..Len(SampleOf(r)) :
                d.columns[i].label = SpacedLabel(SampleOf(r)[i].key)]_vars

-----------------------------------------------------------------------------
\* Properties of the view-recreation script

\* the script's step in slot r
ScriptStep(r) == req[r].kind = "recreate" \/ req'[r].kind = "recreate"

\* the ids of the records of S the script takes for valid
ValidIds(S) == {d.segmentId : d \in {e \in S : ValidSegment(e)}}

\* the script has exited having asked for exactly one refresh of each valid
\* segment, and counted every one of them as a success or as a failure
RefreshedEachOnce ==
    LET b == last.body
    IN  /\ {b.refreshed[i] : i \in 1..Len(b.refreshed)} = ValidIds(store)
        /\ Len(b.refreshed) = Cardinality(ValidIds(store))
        /\ b.successCount + b.failCount = Cardinality(ValidIds(store))

\* C34: the view-recreation script calls the engine's refresh exactly once
\* for each listed segment that is not deleted and has both originalPrompt
\* and viewName, goes on with the remaining segments after a failure, never
\* writes to the store, and exits with a non-zero status iff at least one
\* refresh failed, successCount + failCount being the number of valid segments
C34_RecreateEveryValidView ==
    /\ [][\A r \in Reqs : ScriptStep(r) => store' = store]_vars
    /\ [](last.kind = "recreate" =>
             /\ last.err # "fatal" => RefreshedEachOnce
             /\ last.status # 0 <=> last.body.failCount > 0)

\* C34 amended: as C34, except that the script also exits with a non-zero
\* status, having asked for no refresh, when connecting to the store or
\* listing the segments fails
C34_RecreateOrFatal ==
    /\ [][\A r \in Reqs : ScriptStep(r) => store' = store]_vars
    /\ [](last.kind = "recreate" =>
             IF last.err = "fatal"
             THEN last.status = 1 /\ last.body.refreshed = <<>>
             ELSE /\ RefreshedEachOnce
                  /\ last.status # 0 <=> last.body.failCount > 0)

\* the script exits with status 1 over a store of three records, one of them
\* soft-deleted: the refresh of the first valid segment failed and that of
\* the second, asked for all the same, succeeded
C34_Witness ==
    /\ last.kind = "recreate"
    /\ last.status = 1
    /\ last.err # "fatal"
    /\ last.body.successCount = 1
    /\ last.body.failCount = 1
    /\ Cardinality(store) = 3
    /\ \E d \in store : d.isDeleted
    /\ views = {ViewOf(last.body.refreshed[2])}

-----------------------------------------------------------------------------
\* Properties of updateSegment

\* the fields updateSegment may change
Changeable ==
    {"name", "description", "sqlQuery", "createdDate", "isDeleted",
     "deletedAt"}

\* e is d but for the changeable fields and the storage layer's updatedAt
SameButChangeable(d, e) ==
    \A f \in (DOMAIN d \cup DOMAIN e) \ (Changeable \cup {"updatedAt"}) :
       f \in DOMAIN d /\ f \in DOMAIN e /\ e[f] = d[f]

\* C35: updateSegment can change only name, description, sqlQuery,
\* createdDate, isDeleted and deletedAt: any other field of the updates
\* argument (segmentId, viewName, columns, originalPrompt, createdBy,
\* lastRowCount, lastExecutedAt) is ignored, and a call with no allowed field
\* performs no write
C35_UpdateOnlyAllowedFields ==
    [][last'.kind = "update" =>
          /\ Cardinality(store') = Cardinality(store)
          /\ \A d \in store :
                IF d.segmentId = last'.id
                THEN \E e \in store' : SameButChangeable(d, e)
                ELSE d \in store'
          /\ DOMAIN last'.body \cap Changeable = {} => store' = store]_vars

\* updateSegment was given a new name and a new view name for a stored
\* segment: the name is written, the view name is the one it was
C35_Witness ==
    /\ last.kind = "update"
    /\ last.err = ""
    /\ DOMAIN last.body = {"name", "viewName"}
    /\ \E d \in store :
          /\ d.segmentId = last.id
          /\ d.name = last.body.name
          /\ d.viewName = ViewOf(d.segmentId)

-----------------------------------------------------------------------------
\* Properties of the two creation paths

\* the creation in flight as q, of either path
Creating(q) == q.kind \in {"create", "tool"} /\ q.pc \in {"gen", "exec", "insert"}

\* the engine calls of q but for the segment id and the date they carry
CallsMade(q) ==
    [i \in 1..Len(q.calls) |->
        <<q.calls[i].op,
          IF q.calls[i].op = "create" THEN q.calls[i].arg
          ELSE IF q.calls[i].arg = ViewOf(q.id) THEN <<"own view">>
          ELSE q.calls[i].arg>>]

\* the engine answers q has received so far, but for the segment id
Answers(q) ==
    <<IF q.pc \in {"exec", "insert"}
         THEN <<q.gen.name, q.gen.description, q.gen.sql,
                q.gen.viewName = ViewOf(q.id)>>
         ELSE Nothing,
      IF q.pc = "insert" THEN q.exec ELSE Nothing>>

\* record d is what a creation with the description, the actor and the engine
\* answers of q persists, whichever path q is
PersistedFor(q, d) ==
    /\ DOMAIN d = SchemaPaths \ {"deletedAt"}
    /\ d.segmentId = q.id
    /\ d.originalPrompt = q.desc
    /\ d.createdBy = q.actor
    /\ d.name = q.gen.name
    /\ d.description = q.gen.description
    /\ d.sqlQuery = q.gen.sql
    /\ d.viewName = q.gen.viewName
    /\ d.columns = detectColumns(FirstRow(q.exec.customers))
    /\ d.lastRowCount = q.exec.count
    /\ d.isDeleted = FALSE

\* the fields in which the records of the two paths are to agree
Comparable(d) ==
    [f \in DOMAIN d \ {"segmentId", "viewName", "createdAt", "updatedAt",
                       "createdDate", "lastExecutedAt"} |-> d[f]]

\* C36: the two creation paths are equivalent: with the same description,
\* actor and engine answers, CRMQuery._call and POST / have made the same
\* engine calls; the record either persists is the same function of the
\* description, the actor and the engine answers, segmentId and timestamps
\* apart; and a step at which one persists nothing (an engine call that
\* failed, an insert the store refused) is one at which the other persists
\* nothing
C36_CreationPathsEquivalent ==
    /\ [](\A r1, r2 \in Reqs :
             (/\ req[r1].kind = "create" /\ req[r2].kind = "tool"
              /\ Creating(req[r1]) /\ req[r1].pc = req[r2].pc
              /\ req[r1].desc = req[r2].desc
              /\ req[r1].actor = req[r2].actor
              /\ Answers(req[r1]) = Answers(req[r2]))
                => CallsMade(req[r1]) = CallsMade(req[r2]))
    /\ [][\A r \in Reqs :
             (Creating(req[r]) /\ req'[r] # req[r]) =>
                IF req[r].pc = "insert" /\ last'.err \in {"", "created"}
                THEN \E d \in store' \ store :
                        /\ store' = store \cup {d}
                        /\ PersistedFor(req[r], d)
                        /\ last'.body = d
                ELSE /\ store' = store
                     /\ req'[r].pc = "idle" =>
                           last'.err \notin {"", "created"}]_vars

\* POST / and CRMQuery._call, given the same description by the same actor,
\* have each stored a record, and the two records differ in segmentId, view
\* name and dates only
C36_Witness ==
    /\ last.kind = "tool"
    /\ last.err = "created"
    /\ last.body \in store
    /\ last.body.segmentId = MaxSeg
    /\ \E d \in store :
          /\ d.segmentId = MaxSeg - 1
          /\ Comparable(d) = Comparable(last.body)
          /\ d.lastRowCount = 2

-----------------------------------------------------------------------------
\* Properties of CRMQuery._call

\* the input is the /segment command with nothing after it
BareCommand(input) == trim(input) = SegmentCommand

\* C37: CRMQuery._call given the /segment command with no description after
\* it, surrounding whitespace or not, answers with the request for a
\* description, having called the engine and persisted nothing; and the
\* description of every create call the tool sends to the engine does not
\* itself begin with /segment
C37_BareCommandAsksForDescription ==
    /\ \A r \in Reqs : req[r].kind = "tool" => ~BareCommand(req[r].input)
    /\ (last.kind = "tool" /\ BareCommand(last.input)) =>
          last.err = "no-description" /\ last.calls = <<>>
    /\ \A r \in Reqs :
          (req[r].kind = "tool" /\ Len(req[r].calls) > 0) =>
             ~startsWith(req[r].calls[1].arg, SegmentCommand)

\* the texts CRMQuery._call returns
ToolAnswers ==
    {"created", "invalid-command", "no-description", "no-user", "failed"}

\* C38: CRMQuery._call never throws: every call ends with one of its
\* texts; a call without a user id is answered with the error text before
\* any engine call; and a call in which the engine or the store failed is
\* answered with the failure text and leaves no record of its segment id in
\* the store
C38_ToolAlwaysAnswers ==
    /\ [](/\ last.kind = "tool" =>
                last.status = 0 /\ last.err \in ToolAnswers
          /\ last.err = "no-user" => last.calls = <<>>
          /\ \A r \in Reqs : req[r].kind = "tool" => req[r].actor # "")
    /\ [][\A r \in Reqs :
             (req[r].kind = "tool" /\ req'[r].pc = "idle") =>
                /\ last'.kind = "tool"
                /\ last'.err \in {"created", "failed"}
                /\ last'.err = "failed" =>
                      /\ store' = store
                      /\ RawFind(store', req[r].id) = {}]_vars

\* the store has refused the record of a tool call whose two engine calls
\* had both answered: the call returned the failure text and the store is
\* empty
C38_Witness ==
    /\ last.kind = "tool"
    /\ last.err = "failed"
    /\ last.calls = <<"create", "execute-view">>
    /\ last.id \in failed
    /\ store = {}
    /\ views # {}

-----------------------------------------------------------------------------
\* Properties of termination

\* the handler in slot r is in flight
InFlight(r) == req[r].pc # "idle"

\* C39: every Create, Execute, Refresh and SoftDelete request whose engine
\* and store calls each return ends with exactly one response, success or
\* error, whatever other requests run beside it: a handler in flight is
\* eventually over, the step that ends it sends its response, and no other
\* step of it sends one
C39_EveryRequestAnswered ==
    /\ \A r \in Reqs : InFlight(r) ~> ~InFlight(r)
    /\ [][\A r \in Reqs :
             (InFlight(r) /\ req'[r] # req[r]) =>
                IF InFlight(r)'
                THEN last' = NoResponse
                ELSE /\ last'.kind = req[r].kind
                     /\ last'.id = req[r].id
                     /\ last'.status \in {0, 200, 201, 404, 500}]_vars

\* a Refresh has just been answered an error while another request is
\* still waiting for its call to return
C39_Witness ==
    /\ last.kind = "refresh"
    /\ last.status = 500
    /\ \E r \in Reqs : InFlight(r) /\ req[r].kind = "execute"

====
